---- MODULE Spec2Model ----
(***************************************************************************)
(* One request of the document-intelligence API, from the controller's     *)
(* entry to the end of its handler, for the three routed strategies        *)
(*   "ocr"   POST /api/v1/documents/analyze     DocumentController         *)
(*   "dual"  POST /api/v1/documents-vl/analyze  DocumentVLController       *)
(*   "magic" POST /api/v1/magic-ocr/analyze     MagicOCRController         *)
(* and for HybridService.analyzeImage ("hybrid"), which no controller of   *)
(* the repository calls and which is therefore run at the service level.   *)
(*                                                                         *)
(* Strings are sequences of tokens.  A token is one character of a small   *)
(* alphabet, or a whole literal of the source (a label, a separator, a     *)
(* fixed message).  " " stands for any whitespace character.               *)
(***************************************************************************)
EXTENDS Naturals, Sequences, FiniteSets, TLC

VARIABLES
    endpoint,         \* the route requested: "analyze", "health", "root"; "service"
                      \* for a direct call of HybridService
    apiKey,           \* the X-API-Key header ("" when absent or empty)
    cardocKey,        \* config.apiKeys.cardoc ("" when API_KEY_CARDOC is unset)
    mortgageKey,      \* config.apiKeys.mortgage ("" when API_KEY_MORTGAGE is unset)
    nodeEnv,          \* process.env.NODE_ENV
    formPrompt,       \* the multipart form field `prompt` (<<>> when absent)
    imageSize,        \* width and height of the uploaded image, or of the page
                      \* pdftocairo renders
    strategy,         \* which endpoint / service the request runs
    hasFile,          \* req.file is set
    fileType,         \* req.file.mimetype: "pdf", "image" or "other"
    xPrompt,          \* the x-prompt header (<<>> when absent)
    saveFiles,        \* config.debug.saveFiles
    pc,               \* position of the handler
    tempDir,          \* the handler's tempDir variable is non-null
    dirExists,        \* the temp directory exists on disk
    pngExists,        \* pdftocairo wrote page.png
    rasterExit,       \* how pdftocairo ended (history): "none", "nonzero", "png", "nopng"
    rmOutcome,        \* outcome of the finally block's fs.rm: "none", "removed", "failed"
    imageBuffer,      \* which bytes are handed to the extraction strategy
    tesseractResult,  \* settled state of the OCR branch
    visionResult,     \* settled state of the vision branch
    ocrEngineOut,     \* what the OCR engine answered (history)
    visionBackendOut, \* what the vision backend answered (history)
    textBackendOut,   \* what the text-model backend answered (history)
    tesseractText,
    visionText,
    combinedText,
    extractedText,    \* text extracted on the single-adapter paths
    textPrompt,       \* prompt body sent to the text model
    visionPrompt,     \* instruction sent to the vision model
    calls,            \* number of invocations of each external collaborator
    sent,             \* the image handed to the OCR engine and to the vision model
    thrown,           \* the error the service / handler ended with
    summary,          \* LLMResult.summary returned by the service
    response,         \* the HTTP response sent
    responses,        \* number of responses sent
    logged,           \* branch failure reasons written to the log
    tmpDirs,          \* the directories under os.tmpdir() (requests side by side)
    tmpFiles,         \* the files in them, as <<directory, name>>
    inflight,         \* per request side by side: kind, position, tempDir, files needed
    lastAccess,       \* the latest file-system operation: who, on which directory
    xModel,           \* the x-model header ("" when absent)
    ollamaModel,      \* process.env.OLLAMA_MODEL ("" when unset)
    modelSent,        \* the `model` of the request bodies posted to the backends
    metadataModel     \* data.metadata.model of the 200 response

vars == <<endpoint, apiKey, cardocKey, mortgageKey, nodeEnv, formPrompt, imageSize,
          strategy, hasFile, fileType, xPrompt, saveFiles, pc, tempDir,
          dirExists, pngExists, rasterExit, rmOutcome, imageBuffer, tesseractResult,
          visionResult,
          ocrEngineOut, visionBackendOut, textBackendOut, tesseractText,
          visionText, combinedText, extractedText, textPrompt, visionPrompt,
          calls, sent, thrown, summary, response, responses, logged,
          tmpDirs, tmpFiles, inflight, lastAccess,
          xModel, ollamaModel, modelSent, metadataModel>>

----------------------------------------------------------------------------
(* Bounds *)

\* longest text a backend answers with
MaxLen == 2

----------------------------------------------------------------------------
(* Strings *)

WS == " "

\* characters of an extracted document text
DocChars == {"a", "b", WS}

\* characters of a text-model answer
AnswerChars == {"x", WS}

RECURSIVE SeqsUpTo(_, _)
SeqsUpTo(S, n) ==
    IF n = 0 THEN {<<>>}
    ELSE LET shorter == SeqsUpTo(S, n - 1)
         IN  shorter \cup {Append(s, c) : s \in {t \in shorter : Len(t) = n - 1}, c \in S}

DocTexts == SeqsUpTo(DocChars, MaxLen)

AnswerTexts == SeqsUpTo(AnswerChars, MaxLen)

RECURSIVE TrimStart(_)
TrimStart(s) ==
    IF s # <<>> /\ Head(s) = WS THEN TrimStart(Tail(s)) ELSE s

RECURSIVE TrimEnd(_)
TrimEnd(s) ==
    IF s # <<>> /\ s[Len(s)] = WS THEN TrimEnd(SubSeq(s, 1, Len(s) - 1)) ELSE s

\* String.prototype.trim
Trim(s) == TrimEnd(TrimStart(s))

\* variant: the response text is taken as it is, without `.trim()`
ResponseTextUntrimmed(raw) == raw

\* `response.data.response ? response.data.response.trim() : ''`
ResponseText(raw) == IF raw # <<>> THEN Trim(raw) ELSE <<>>

Contains(s, tok) == \E i \in 1..Len(s) : s[i] = tok

----------------------------------------------------------------------------
(* Errors *)

NoErr == [kind |-> "none", message |-> <<>>]

PlainError(msg) == [kind |-> "plain", message |-> msg]

\* axios errors: timeout (code ECONNABORTED), 404 response, anything else
AxiosTimeout == [kind |-> "timeout", message |-> <<"timeout exceeded">>]

AxiosNotFound == [kind |-> "notfound", message |-> <<"Request failed with status code 404">>]

AxiosOther == [kind |-> "axios", message |-> <<"Network Error">>]

AxiosErrors == {AxiosTimeout, AxiosNotFound, AxiosOther}

\* Tesseract.recognize throwing
EngineError == PlainError(<<"tesseract engine error">>)

\* a file-system or child-process call throwing
IoError(what) == PlainError(<<what>>)

isAxiosError(e) == e.kind \in {"timeout", "notfound", "axios"}

----------------------------------------------------------------------------
(* Backend answers *)

NoReply == [ok |-> FALSE, text |-> <<>>, err |-> NoErr]

Answer(t) == [ok |-> TRUE, text |-> t, err |-> NoErr]

Failure(e) == [ok |-> FALSE, text |-> <<>>, err |-> e]

OcrReplies == {Answer(t) : t \in DocTexts} \cup {Failure(EngineError)}

VisionReplies == {Answer(t) : t \in DocTexts} \cup {Failure(e) : e \in AxiosErrors}

TextReplies == {Answer(t) : t \in AnswerTexts} \cup {Failure(e) : e \in AxiosErrors}

----------------------------------------------------------------------------
(* Promise outcomes of the two dual-parallel branches *)

Idle == [status |-> "idle", value |-> <<>>, reason |-> NoErr]

Pending == [status |-> "pending", value |-> <<>>, reason |-> NoErr]

Fulfilled(v) == [status |-> "fulfilled", value |-> v, reason |-> NoErr]

Rejected(e) == [status |-> "rejected", value |-> <<>>, reason |-> e]

Settled(r) == r.status \in {"fulfilled", "rejected"}

\* DualOCRService.runTesseractOCR: `return text.trim()`, the engine's throw rejects
runTesseractOCR(reply) ==
    IF reply.ok THEN Fulfilled(Trim(reply.text)) ELSE Rejected(reply.err)

\* DualOCRService.runVisionOCR: the trimmed response text, axios' throw rejects
runVisionOCR(reply) ==
    IF reply.ok THEN Fulfilled(ResponseText(reply.text)) ELSE Rejected(reply.err)

----------------------------------------------------------------------------
(* Image preconditioning *)

\* `.resize(1024, null, ...)`: the width asked for
ResizeWidth == 1024

\* an A4 page as pdftocairo renders it at its default 150 dpi
PageSize == <<1240, 1754>>

\* widths and heights of the images looked into: below, at and above the width
\* asked for, landscape and portrait
ImageSizes == {<<w, h>> : w \in {800, 1024, 1240, 2048}, h \in {600, 1754, 4096}}

\* rounding to the nearest integer of a / b, at least 1
RoundDiv(a, b) == IF (2 * a + b) \div (2 * b) < 1 THEN 1 ELSE (2 * a + b) \div (2 * b)

\* variant: without `withoutEnlargement`
resizeEnlarging(size) ==
    <<ResizeWidth, RoundDiv(size[2] * ResizeWidth, size[1])>>

\* `sharp(imageBuffer).resize(1024, null, { fit: 'inside', withoutEnlargement: true })`:
\* the width is brought down to 1024 and the height follows in proportion; an
\* image that is not wider than 1024 keeps its dimensions
resize(size) ==
    IF size[1] <= ResizeWidth THEN size
    ELSE <<ResizeWidth, RoundDiv(size[2] * ResizeWidth, size[1])>>

----------------------------------------------------------------------------
(* The merge *)

PrimaryLabel == "=== PRIMARY OCR (Tesseract) ===\n"

SupplementaryLabel == "\n\n=== SUPPLEMENTARY OCR (Vision Model) ===\n"

\* variant: the supplementary text is added only when it differs from the primary
combineDeduplicated(tText, vText) ==
    IF tText = <<>> /\ vText # <<>> THEN vText
    ELSE IF tText # <<>> /\ vText = <<>> THEN tText
    ELSE IF tText = vText THEN <<PrimaryLabel>> \o tText
    ELSE <<PrimaryLabel>> \o tText \o <<SupplementaryLabel>> \o vText

\* variant: the labelled template is used whatever the two texts are
combineAlwaysLabelled(tText, vText) ==
    <<PrimaryLabel>> \o tText \o <<SupplementaryLabel>> \o vText

\* DualOCRService.combineOCRResults
combineOCRResults(tText, vText) ==
    IF tText = <<>> /\ vText # <<>> THEN vText
    ELSE IF tText # <<>> /\ vText = <<>> THEN tText
    ELSE <<PrimaryLabel>> \o tText \o <<SupplementaryLabel>> \o vText

----------------------------------------------------------------------------
(* Prompts and fixed messages *)

\* DocumentVLController / MagicOCRController: `req.headers['x-prompt'] || '...'`
ControllerDefaultPrompt == <<"Extract all text and data from this document and return as structured JSON.">>

\* DocumentController: `req.headers['x-prompt'] || config.ollama.defaultPrompt`
ConfigDefaultPrompt == <<"Analyze this document and provide a concise summary with key information.">>

\* DualOCRService / HybridService: `analysisPrompt || '...'`
DefaultAnalysisPrompt == <<"Analyze the following document text and extract key information as structured JSON.">>

\* the dual-OCR framing between the instruction and the combined text
DualContext == "\n\nIMPORTANT: The text below comes from TWO different OCR methods ...\n\n"

BlankLine == "\n\n"

HybridSeparator == "\n\nDocument text:\n"

VisionExtractInstruction == <<"Extract all text from this image. Return only the raw text without any formatting or additional comments.">>

MagicInstruction == <<"Extract the text in the image.">>

OrDefault(value, default) == IF value # <<>> THEN value ELSE default

\* the prompt the controller hands to its service
ControllerPrompt ==
    IF strategy = "ocr" THEN OrDefault(xPrompt, ConfigDefaultPrompt)
    ELSE OrDefault(xPrompt, ControllerDefaultPrompt)

\* variant: the framing is added only when both texts were merged
contextualPromptOnlyForTwoTexts(analysisPrompt, combined) ==
    IF Contains(combined, PrimaryLabel)
    THEN OrDefault(analysisPrompt, DefaultAnalysisPrompt) \o <<DualContext>> \o combined
    ELSE OrDefault(analysisPrompt, DefaultAnalysisPrompt) \o <<BlankLine>> \o combined

\* DualOCRService.analyzeImage: contextualPrompt
contextualPrompt(analysisPrompt, combined) ==
    OrDefault(analysisPrompt, DefaultAnalysisPrompt) \o <<DualContext>> \o combined

\* variant: the text is sent right after the instruction
fullPromptWithoutBlankLine(prompt, text) == prompt \o text

\* LLMService.analyzeText: fullPrompt
fullPrompt(prompt, text) == prompt \o <<BlankLine>> \o text

\* HybridService.analyzeImage: the text-model prompt
hybridPrompt(analysisPrompt, text) ==
    OrDefault(analysisPrompt, DefaultAnalysisPrompt) \o <<HybridSeparator>> \o text

BothFailedError == PlainError(<<"Both OCR methods failed to extract any text">>)

\* variant: a catch block that does not test `error.code === 'ECONNABORTED'`
CatchBlockWithoutTimeout(e, timeoutMsg, notFoundMsg, prefix) ==
    IF isAxiosError(e) /\ e.kind = "notfound" THEN PlainError(<<notFoundMsg>>)
    ELSE PlainError(<<prefix>> \o e.message)

\* variant: a catch block that does not test `error.response?.status === 404`
CatchBlockWithoutNotFound(e, timeoutMsg, notFoundMsg, prefix) ==
    IF isAxiosError(e) /\ e.kind = "timeout" THEN PlainError(<<timeoutMsg>>)
    ELSE PlainError(<<prefix>> \o e.message)

\* the catch block every service ends with
CatchBlock(e, timeoutMsg, notFoundMsg, prefix) ==
    IF isAxiosError(e) /\ e.kind = "timeout" THEN PlainError(<<timeoutMsg>>)
    ELSE IF isAxiosError(e) /\ e.kind = "notfound" THEN PlainError(<<notFoundMsg>>)
    ELSE PlainError(<<prefix>> \o e.message)

\* DualOCRService.analyzeImage: catch
DualCatch(e) ==
    CatchBlock(e, "Dual OCR processing request timed out",
               "Model not found - ensure both vision and text models are available",
               "Failed to process with dual OCR: ")

\* LLMService.analyzeText: catch
LlmCatch(e) ==
    CatchBlock(e, "LLM request timed out - try a shorter document or increase timeout",
               "Model not found - please pull it",
               "Failed to analyze text with Ollama: ")

\* MagicOCRService.analyzeImage: catch
MagicCatch(e) ==
    CatchBlock(e, "Magic OCR request timed out - try a smaller image or increase timeout",
               "Magic OCR model not found - please pull it",
               "Failed to extract text with Magic OCR model: ")

\* HybridService.analyzeImage: catch
HybridCatch(e) ==
    CatchBlock(e, "Hybrid processing request timed out",
               "Model not found - ensure both vision and text models are available",
               "Failed to process with hybrid approach: ")

\* the catch block of the service the request runs in
ServiceCatch(e) ==
    IF strategy = "dual" THEN DualCatch(e)
    ELSE IF strategy = "magic" THEN MagicCatch(e)
    ELSE IF strategy = "hybrid" THEN HybridCatch(e)
    ELSE LlmCatch(e)

\* `if (!analysis) throw` / `if (!summary) throw` after the text-model call
EmptyAnalysisError ==
    PlainError(<<IF strategy = "ocr" THEN "Empty analysis received from Ollama"
                 ELSE "Text model returned empty analysis">>)

\* OCRService.extractTextFromPDF / extractTextFromImage: catch
OcrCatch(e) ==
    PlainError(<<IF fileType = "pdf" THEN "Failed to extract text from PDF: "
                 ELSE "Failed to extract text from image: ">> \o e.message)

----------------------------------------------------------------------------
(* HTTP responses *)

NoResponse ==
    [status |-> 0, success |-> FALSE, code |-> "", analysis |-> <<>>,
     message |-> <<>>, details |-> ""]

\* `res.status(...).json({ success: false, error: { message, code } })`
ErrorBody(status, code, message) ==
    [status |-> status, success |-> FALSE, code |-> code, analysis |-> <<>>,
     message |-> <<message>>, details |-> ""]

BadRequest(code) ==
    ErrorBody(400, code, IF code = "MISSING_FILE" THEN "No file uploaded"
                         ELSE "Unsupported file type: ")

\* authenticate: the two 401 bodies
Unauthorized(code) ==
    ErrorBody(401, code, IF code = "MISSING_API_KEY" THEN "API key is required"
                         ELSE "Invalid API key")

\* rateLimiter: the body express-rate-limit answers with
TooManyRequests ==
    ErrorBody(429, "RATE_LIMIT_EXCEEDED", "Too many requests, please try again later")

Success(analysis) ==
    [status |-> 200, success |-> TRUE, code |-> "", analysis |-> analysis,
     message |-> <<>>, details |-> ""]

\* healthCheck handlers and `app.get('/')`: `{ success: true, message, ... }`
Info(message) ==
    [status |-> 200, success |-> TRUE, code |-> "", analysis |-> <<>>,
     message |-> <<message>>, details |-> ""]

\* variant: the stack is put into the body whatever NODE_ENV is
errorHandlerAlwaysDetailed(e) ==
    [status |-> 500, success |-> FALSE, code |-> "INTERNAL_ERROR", analysis |-> <<>>,
     message |-> IF e.message = <<>> THEN <<"Internal server error">> ELSE e.message,
     details |-> "stack"]

\* errorHandler: 500 with err.message and code INTERNAL_ERROR; err.stack only
\* when NODE_ENV is 'development'
errorHandler(e) ==
    [status |-> 500, success |-> FALSE, code |-> "INTERNAL_ERROR", analysis |-> <<>>,
     message |-> IF e.message = <<>> THEN <<"Internal server error">> ELSE e.message,
     details |-> IF nodeEnv = "development" THEN "stack" ELSE ""]

----------------------------------------------------------------------------
(* State *)

Strategies == {"ocr", "dual", "magic", "hybrid"}

Endpoints == {"analyze", "health", "root", "service"}

\* the routers mounted under /api/v1 each have /health and an analyze route;
\* `GET /` belongs to no router and HybridService is mounted nowhere
Routed(e) ==
    CASE e = "service" -> {"hybrid"}
      [] e = "root" -> {"none"}
      [] OTHER -> {"ocr", "dual", "magic"}

\* values of the X-API-Key header: none, the cardoc client's key, another one
HeaderKeys == {"", "k1", "bad"}

\* `new Set([config.apiKeys.cardoc, config.apiKeys.mortgage])`
VALID_API_KEYS == {cardocKey, mortgageKey}

ControllerTempDir == strategy \in {"dual", "magic"}

NoCalls == [raster |-> 0, ocr |-> 0, vision |-> 0, text |-> 0]

Called(what) == [calls EXCEPT ![what] = @ + 1]

\* a Buffer of image bytes and the dimensions of the image in it
Image(bytes, size) == [bytes |-> bytes, size |-> size]

NoImage == Image("none", <<0, 0>>)

\* `const visionTimeout = 80000` of DualOCRService, in ms
DualVisionTimeout == 80000

\* config.ollama.visionTimeout, in ms: the default of OLLAMA_VISION_TIMEOUT
ConfigVisionTimeout == 1200000

\* variant: every vision request is given the 80 s of DualOCRService
VisionRequestTimeoutAlwaysShort == DualVisionTimeout

\* the `timeout` option of the vision request of the service
VisionRequestTimeout ==
    IF strategy = "dual" THEN DualVisionTimeout ELSE ConfigVisionTimeout

\* the image handed to each extraction adapter, and the `timeout` option of the
\* vision request
NothingSent == [ocr |-> NoImage, vision |-> NoImage, timeout |-> 0]

Handed(what, image) == [sent EXCEPT ![what] = image]

request == <<endpoint, apiKey, cardocKey, mortgageKey, nodeEnv, formPrompt, imageSize,
            strategy, hasFile, fileType, xPrompt, saveFiles>>

branches == <<tesseractResult, visionResult, ocrEngineOut, visionBackendOut>>

merged == <<tesseractText, visionText, combinedText, logged>>

disk == <<tempDir, dirExists, pngExists, rasterExit, rmOutcome>>

outcome == <<thrown, summary, response, responses>>

\* requests side by side (SpecPair)
pair == <<tmpDirs, tmpFiles, inflight, lastAccess>>

\* the model identifiers of one request (SpecModels)
models == <<xModel, ollamaModel, modelSent, metadataModel>>

\* one request alone touches no other request's directory, and its model
\* identifiers are left at the defaults
NoPair ==
    /\ tmpDirs = {}
    /\ tmpFiles = {}
    /\ inflight = <<>>
    /\ lastAccess = <<>>

NoModels ==
    /\ xModel = ""
    /\ ollamaModel = ""
    /\ modelSent = <<>>
    /\ metadataModel = <<>>

Init ==
    /\ endpoint \in Endpoints
    /\ strategy \in Routed(endpoint)
    /\ cardocKey \in {"", "k1"}
    /\ mortgageKey \in {"", "k2"}
    /\ IF endpoint = "service" THEN apiKey = "" ELSE apiKey \in HeaderKeys
    /\ IF endpoint = "analyze"
       THEN /\ xPrompt \in {<<>>, <<"p">>}
            /\ hasFile \in BOOLEAN
            /\ fileType \in {"pdf", "image", "other"}
            \* only the error handler reads NODE_ENV
            /\ nodeEnv \in {"development", "production"}
       ELSE /\ xPrompt \in IF endpoint = "service" THEN {<<>>, <<"p">>} ELSE {<<>>}
            /\ hasFile = (endpoint = "service")
            /\ fileType = "image"
            /\ nodeEnv = "production"
    \* only OCRService reads config.debug.saveFiles
    /\ IF endpoint = "analyze" /\ strategy = "ocr"
       THEN saveFiles \in BOOLEAN /\ formPrompt \in {<<>>, <<"q">>}
       ELSE saveFiles = FALSE /\ formPrompt = <<>>
    \* only MagicOCRService and HybridService look into the image
    /\ IF strategy \in {"magic", "hybrid"} /\ endpoint # "health"
       THEN imageSize \in ImageSizes
       ELSE imageSize = PageSize
    /\ pc = CASE endpoint = "service" -> "analyze"
               [] endpoint = "analyze" -> "authenticate"
               [] OTHER -> endpoint
    /\ tempDir = FALSE
    /\ dirExists = FALSE
    /\ pngExists = FALSE
    /\ rasterExit = "none"
    /\ rmOutcome = "none"
    /\ imageBuffer = IF strategy = "hybrid" THEN "upload" ELSE "none"
    /\ tesseractResult = Idle
    /\ visionResult = Idle
    /\ ocrEngineOut = NoReply
    /\ visionBackendOut = NoReply
    /\ textBackendOut = NoReply
    /\ tesseractText = <<>>
    /\ visionText = <<>>
    /\ combinedText = <<>>
    /\ extractedText = <<>>
    /\ textPrompt = <<>>
    /\ visionPrompt = <<>>
    /\ calls = NoCalls
    /\ sent = NothingSent
    /\ thrown = NoErr
    /\ summary = <<>>
    /\ response = NoResponse
    /\ responses = 0
    /\ logged = {}
    /\ NoPair
    /\ NoModels

----------------------------------------------------------------------------
(* Middleware in front of the analyze handlers, and the open routes *)

\* `res.json(...)` of a middleware or of an open route ends the request
Send(body) ==
    /\ response' = body
    /\ responses' = responses + 1
    /\ pc' = "done"

\* variant: only the membership test, without `if (!apiKey)`
authenticateWithoutEmptyTest ==
    /\ pc = "authenticate"
    /\ IF apiKey \notin VALID_API_KEYS
       THEN Send(Unauthorized("INVALID_API_KEY"))
       ELSE pc' = "rateLimiter" /\ UNCHANGED <<response, responses>>
    /\ UNCHANGED <<pair, models, request, disk, imageBuffer, branches, merged, textBackendOut,
                   extractedText, textPrompt, visionPrompt, calls, sent, thrown, summary>>

\* authenticate: `if (!apiKey)`, then `if (!VALID_API_KEYS.has(apiKey))`, then next()
authenticate ==
    /\ pc = "authenticate"
    /\ IF apiKey = ""
       THEN Send(Unauthorized("MISSING_API_KEY"))
       ELSE IF apiKey \notin VALID_API_KEYS
       THEN Send(Unauthorized("INVALID_API_KEY"))
       ELSE pc' = "rateLimiter" /\ UNCHANGED <<response, responses>>
    /\ UNCHANGED <<pair, models, request, disk, imageBuffer, branches, merged, textBackendOut,
                   extractedText, textPrompt, visionPrompt, calls, sent, thrown, summary>>

\* rateLimiter: over the limit of the window the request is answered 429
rateLimiter ==
    /\ pc = "rateLimiter"
    /\ \E exceeded \in BOOLEAN :
          IF exceeded THEN Send(TooManyRequests)
          ELSE pc' = "upload" /\ UNCHANGED <<response, responses>>
    /\ UNCHANGED <<pair, models, request, disk, imageBuffer, branches, merged, textBackendOut,
                   extractedText, textPrompt, visionPrompt, calls, sent, thrown, summary>>

\* `upload.single('file')`: multer passes the request on, or hands the
\* fileFilter's error or its own size-limit error to the error handler
upload ==
    /\ pc = "upload"
    /\ \E uploadEnd \in {"accept"} \cup (IF hasFile THEN {"File too large", "File type is not allowed"}
                                        ELSE {}) :
          IF uploadEnd = "accept"
          THEN pc' = "handler" /\ UNCHANGED outcome
          ELSE /\ thrown' = PlainError(<<uploadEnd>>)
               /\ Send(errorHandler(thrown'))
               /\ UNCHANGED summary
    /\ UNCHANGED <<pair, models, request, disk, imageBuffer, branches, merged, textBackendOut,
                   extractedText, textPrompt, visionPrompt, calls, sent>>

\* `router.get('/health', healthCheck)`: no middleware in front
healthCheck ==
    /\ pc = "health"
    /\ Send(Info("API is running"))
    /\ UNCHANGED <<pair, models, request, disk, imageBuffer, branches, merged, textBackendOut,
                   extractedText, textPrompt, visionPrompt, calls, sent, thrown, summary>>

\* `app.get('/', ...)`: the index of the endpoints, no middleware in front
rootEndpoint ==
    /\ pc = "root"
    /\ Send(Info("Document Intelligence API"))
    /\ UNCHANGED <<pair, models, request, disk, imageBuffer, branches, merged, textBackendOut,
                   extractedText, textPrompt, visionPrompt, calls, sent, thrown, summary>>

----------------------------------------------------------------------------
(* Controllers: validation and rasterization *)

\* where a throw inside the rasterization / extraction steps lands:
\* OCRService wraps it and, for a PDF, runs its finally block first; the
\* controllers' catch forwards it to the error handler
Throw(e) ==
    /\ thrown' = IF strategy = "ocr" THEN OcrCatch(e) ELSE e
    /\ pc' = IF strategy = "ocr" /\ fileType = "pdf" THEN "finally" ELSE "respond"

\* variant: a PDF is handed to the extraction strategy without rasterization
ValidateUploadSkipsRasterization ==
    /\ pc = "handler"
    /\ IF ~hasFile \/ fileType = "other"
       THEN /\ response' = BadRequest(IF ~hasFile THEN "MISSING_FILE"
                                      ELSE "UNSUPPORTED_FILE_TYPE")
            /\ responses' = responses + 1
            /\ pc' = IF ControllerTempDir THEN "finally" ELSE "done"
            /\ UNCHANGED <<imageBuffer, calls, sent>>
       ELSE /\ UNCHANGED <<response, responses>>
            /\ imageBuffer' = "upload"
            /\ pc' = IF strategy = "ocr" THEN "recognize" ELSE "analyze"
            /\ calls' = IF strategy = "ocr" THEN Called("ocr") ELSE calls
            /\ sent' = IF strategy = "ocr" THEN Handed("ocr", Image("upload", imageSize))
                       ELSE sent
    /\ UNCHANGED <<pair, models, request, disk, branches, merged, textBackendOut, extractedText,
                   textPrompt, visionPrompt, thrown, summary>>

\* variant: every accepted upload goes through the rasterization
ValidateUploadRasterizesAll ==
    /\ pc = "handler"
    /\ IF ~hasFile \/ fileType = "other"
       THEN /\ response' = BadRequest(IF ~hasFile THEN "MISSING_FILE"
                                      ELSE "UNSUPPORTED_FILE_TYPE")
            /\ responses' = responses + 1
            /\ pc' = IF ControllerTempDir THEN "finally" ELSE "done"
       ELSE /\ UNCHANGED <<response, responses>>
            /\ pc' = IF strategy = "ocr" /\ saveFiles THEN "debugMkdir" ELSE "mkdtemp"
    /\ UNCHANGED <<pair, models, request, disk, imageBuffer, branches, merged, textBackendOut,
                   extractedText, textPrompt, visionPrompt, calls, sent, thrown,
                   summary>>

\* variant: without the final `else`, a file of any other type is used as an image
ValidateUploadAcceptsAnyType ==
    /\ pc = "handler"
    /\ IF ~hasFile
       THEN /\ response' = BadRequest(IF ~hasFile THEN "MISSING_FILE"
                                      ELSE "UNSUPPORTED_FILE_TYPE")
            /\ responses' = responses + 1
            /\ pc' = IF ControllerTempDir THEN "finally" ELSE "done"
            /\ UNCHANGED <<imageBuffer, calls, sent>>
       ELSE /\ UNCHANGED <<response, responses>>
            /\ IF fileType = "pdf"
               THEN /\ pc' = IF strategy = "ocr" /\ saveFiles THEN "debugMkdir"
                             ELSE "mkdtemp"
                    /\ UNCHANGED <<imageBuffer, calls, sent>>
               ELSE /\ imageBuffer' = "upload"
                    /\ pc' = IF strategy = "ocr" THEN "recognize" ELSE "analyze"
                    /\ calls' = IF strategy = "ocr" THEN Called("ocr") ELSE calls
                    /\ sent' = IF strategy = "ocr"
                               THEN Handed("ocr", Image("upload", imageSize))
                               ELSE sent
    /\ UNCHANGED <<pair, models, request, disk, branches, merged, textBackendOut, extractedText,
                   textPrompt, visionPrompt, thrown, summary>>

\* `if (!req.file)`, then the branch on req.file.mimetype
ValidateUpload ==
    /\ pc = "handler"
    /\ IF ~hasFile \/ fileType = "other"
       THEN /\ response' = BadRequest(IF ~hasFile THEN "MISSING_FILE"
                                      ELSE "UNSUPPORTED_FILE_TYPE")
            /\ responses' = responses + 1
            /\ pc' = IF ControllerTempDir THEN "finally" ELSE "done"
            /\ UNCHANGED <<imageBuffer, calls, sent>>
       ELSE /\ UNCHANGED <<response, responses>>
            /\ IF fileType = "pdf"
               THEN /\ pc' = IF strategy = "ocr" /\ saveFiles THEN "debugMkdir"
                             ELSE "mkdtemp"
                    /\ UNCHANGED <<imageBuffer, calls, sent>>
               ELSE /\ imageBuffer' = "upload"
                    /\ pc' = IF strategy = "ocr" THEN "recognize" ELSE "analyze"
                    /\ calls' = IF strategy = "ocr" THEN Called("ocr") ELSE calls
                    /\ sent' = IF strategy = "ocr"
                               THEN Handed("ocr", Image("upload", imageSize))
                               ELSE sent
    /\ UNCHANGED <<pair, models, request, disk, branches, merged, textBackendOut, extractedText,
                   textPrompt, visionPrompt, thrown, summary>>

\* OCRService.extractTextFromPDF: `fs.mkdir(config.debug.dir)` when saveFiles
DebugMkdir ==
    /\ pc = "debugMkdir"
    /\ \E ok \in BOOLEAN :
          IF ok THEN pc' = "mkdtemp" /\ UNCHANGED thrown
          ELSE Throw(IoError("mkdir failed"))
    /\ UNCHANGED <<pair, models, request, disk, imageBuffer, branches, merged, textBackendOut,
                   extractedText, textPrompt, visionPrompt, calls, sent, summary,
                   response, responses>>

\* `tempDir = await fs.mkdtemp(...)`
MakeTempDir ==
    /\ pc = "mkdtemp"
    /\ \E ok \in BOOLEAN :
          IF ok THEN /\ tempDir' = TRUE
                     /\ dirExists' = TRUE
                     /\ pc' = "writeFile"
                     /\ UNCHANGED thrown
          ELSE /\ Throw(IoError("mkdtemp failed"))
               /\ UNCHANGED <<tempDir, dirExists>>
    /\ UNCHANGED <<pair, models, request, pngExists, rasterExit, rmOutcome, imageBuffer, branches, merged, textBackendOut,
                   extractedText, textPrompt, visionPrompt, calls, sent, summary,
                   response, responses>>

\* `await fs.writeFile(tempPdfPath, buffer)`
WritePdf ==
    /\ pc = "writeFile"
    /\ \E ok \in BOOLEAN :
          IF ok THEN pc' = "pdftocairo" /\ UNCHANGED thrown
          ELSE Throw(IoError("writeFile failed"))
    /\ UNCHANGED <<pair, models, request, disk, imageBuffer, branches, merged, textBackendOut,
                   extractedText, textPrompt, visionPrompt, calls, sent, summary,
                   response, responses>>

\* `await execAsync('pdftocairo -png -f 1 -l 1 -singlefile ...')`: the renderer
\* exits non-zero (execAsync throws), or exits zero with or without page.png
RunPdftocairo ==
    /\ pc = "pdftocairo"
    /\ calls' = Called("raster")
    /\ UNCHANGED sent
    /\ \E exit \in {"nonzero", "png", "nopng"} :
          /\ rasterExit' = exit
          /\ IF exit = "nonzero"
             THEN Throw(IoError("Command failed: pdftocairo")) /\ UNCHANGED pngExists
             ELSE /\ pngExists' = (exit = "png")
                  /\ pc' = "readFile"
                  /\ UNCHANGED thrown
    /\ UNCHANGED <<pair, models, request, tempDir, dirExists, rmOutcome, imageBuffer, branches,
                   merged, textBackendOut, extractedText, textPrompt, visionPrompt,
                   summary, response, responses>>

\* variant: a missing page.png is not noticed and the strategy is run anyway
ReadPngIgnoresMissing ==
    /\ pc = "readFile"
    /\ imageBuffer' = "png"
    /\ pc' = IF strategy = "dual" THEN "debugPng"
             ELSE IF strategy = "magic" THEN "analyze"
             ELSE IF saveFiles THEN "debugCopy"
             ELSE "recognize"
    /\ calls' = IF strategy = "ocr" /\ ~saveFiles THEN Called("ocr") ELSE calls
    /\ sent' = IF strategy = "ocr" /\ ~saveFiles THEN Handed("ocr", Image("png", imageSize))
               ELSE sent
    /\ UNCHANGED <<pair, models, request, disk, branches, merged, textBackendOut, extractedText,
                   textPrompt, visionPrompt, thrown, summary, response, responses>>

\* `imageBuffer = await fs.readFile(pngPath)`, then the next call is issued
ReadPng ==
    /\ pc = "readFile"
    /\ \E ok \in BOOLEAN :
          IF ok /\ pngExists
          THEN /\ imageBuffer' = "png"
               /\ pc' = IF strategy = "dual" THEN "debugPng"
                        ELSE IF strategy = "magic" THEN "analyze"
                        ELSE IF saveFiles THEN "debugCopy"
                        ELSE "recognize"
               /\ calls' = IF strategy = "ocr" /\ ~saveFiles THEN Called("ocr") ELSE calls
               /\ sent' = IF strategy = "ocr" /\ ~saveFiles
                          THEN Handed("ocr", Image("png", imageSize))
                          ELSE sent
               /\ UNCHANGED thrown
          ELSE /\ Throw(IoError("ENOENT: page.png"))
               /\ UNCHANGED <<imageBuffer, calls, sent>>
    /\ UNCHANGED <<pair, models, request, disk, branches, merged, textBackendOut, extractedText,
                   textPrompt, visionPrompt, summary, response, responses>>

\* DocumentVLController: the unconditional debug copy of the converted PNG
\* (`fs.mkdir` + `fs.writeFile` inside the try block)
DebugPng ==
    /\ pc = "debugPng"
    /\ \E ok \in BOOLEAN :
          IF ok THEN pc' = "analyze" /\ UNCHANGED thrown
          ELSE Throw(IoError("debug write failed"))
    /\ UNCHANGED <<pair, models, request, disk, imageBuffer, branches, merged, textBackendOut,
                   extractedText, textPrompt, visionPrompt, calls, sent, summary,
                   response, responses>>

\* OCRService.extractTextFromPDF: `fs.copyFile(pngPath, debugPngPath)` when saveFiles
DebugCopy ==
    /\ pc = "debugCopy"
    /\ \E ok \in BOOLEAN :
          IF ok THEN /\ pc' = "recognize"
                     /\ calls' = Called("ocr")
                     /\ sent' = Handed("ocr", Image(imageBuffer, imageSize))
                     /\ UNCHANGED thrown
          ELSE Throw(IoError("copyFile failed")) /\ UNCHANGED <<calls, sent>>
    /\ UNCHANGED <<pair, models, request, disk, imageBuffer, branches, merged, textBackendOut,
                   extractedText, textPrompt, visionPrompt, summary, response,
                   responses>>

----------------------------------------------------------------------------
(* OCR-only: OCRService and LLMService *)

NoTextError ==
    PlainError(<<IF fileType = "pdf" THEN "No text extracted from PDF image"
                 ELSE "No text extracted from image">>)

\* where OCRService returns to: its finally block (PDF) or the controller
OcrReturn == IF fileType = "pdf" THEN "finally" ELSE "llm"

\* variant: without `if (!text || !text.trim()) throw`, empty text is returned
RecognizeAcceptsEmpty ==
    /\ pc = "recognize"
    /\ \E reply \in OcrReplies :
          /\ ocrEngineOut' = reply
          /\ IF ~reply.ok
             THEN Throw(reply.err) /\ UNCHANGED extractedText
             ELSE /\ extractedText' = Trim(reply.text)
                  /\ pc' = IF saveFiles THEN "debugTxt" ELSE OcrReturn
                  /\ UNCHANGED thrown
    /\ UNCHANGED <<pair, models, request, disk, imageBuffer, tesseractResult, visionResult,
                   visionBackendOut, merged, textBackendOut, textPrompt,
                   visionPrompt, calls, sent, summary, response, responses>>

\* `await Tesseract.recognize(...)`, then `if (!text || !text.trim()) throw`
Recognize ==
    /\ pc = "recognize"
    /\ \E reply \in OcrReplies :
          /\ ocrEngineOut' = reply
          /\ IF ~reply.ok
             THEN Throw(reply.err) /\ UNCHANGED extractedText
             ELSE IF reply.text = <<>> \/ Trim(reply.text) = <<>>
             THEN Throw(NoTextError) /\ UNCHANGED extractedText
             ELSE /\ extractedText' = Trim(reply.text)
                  /\ pc' = IF saveFiles THEN "debugTxt" ELSE OcrReturn
                  /\ UNCHANGED thrown
    /\ UNCHANGED <<pair, models, request, disk, imageBuffer, tesseractResult, visionResult,
                   visionBackendOut, merged, textBackendOut, textPrompt,
                   visionPrompt, calls, sent, summary, response, responses>>

\* `fs.writeFile(debugTxtPath, text)` when saveFiles (after `fs.mkdir` for an image)
DebugTxt ==
    /\ pc = "debugTxt"
    /\ \E ok \in BOOLEAN :
          IF ok THEN pc' = OcrReturn /\ UNCHANGED thrown
          ELSE Throw(IoError("debug write failed"))
    /\ UNCHANGED <<pair, models, request, disk, imageBuffer, branches, merged, textBackendOut,
                   extractedText, textPrompt, visionPrompt, calls, sent, summary,
                   response, responses>>

\* LLMService.analyzeText up to its `await axios.post`
LlmStart ==
    /\ pc = "llm"
    /\ textPrompt' = fullPrompt(ControllerPrompt, extractedText)
    /\ calls' = Called("text")
    /\ UNCHANGED sent
    /\ pc' = "generate"
    /\ UNCHANGED <<pair, models, request, disk, imageBuffer, branches, merged, textBackendOut,
                   extractedText, visionPrompt, outcome>>

\* variant: without the `if (!analysis) throw` check, an empty answer is returned
\* as the summary
GenerateSettleKeepsEmpty ==
    /\ pc = "generate"
    /\ \E reply \in TextReplies :
          /\ textBackendOut' = reply
          /\ IF ~reply.ok
             THEN thrown' = ServiceCatch(reply.err) /\ UNCHANGED summary
             ELSE summary' = ResponseText(reply.text) /\ UNCHANGED thrown
    /\ pc' = IF strategy = "hybrid" THEN "done" ELSE "respond"
    /\ UNCHANGED <<pair, models, request, disk, imageBuffer, branches, merged, extractedText,
                   textPrompt, visionPrompt, calls, sent, response, responses>>

\* the text-model call settles: the answer is trimmed, an empty one is thrown,
\* and the service's catch block rewrites whatever was thrown
GenerateSettle ==
    /\ pc = "generate"
    /\ \E reply \in TextReplies :
          /\ textBackendOut' = reply
          /\ IF ~reply.ok
             THEN thrown' = ServiceCatch(reply.err) /\ UNCHANGED summary
             ELSE IF ResponseText(reply.text) = <<>>
             THEN thrown' = ServiceCatch(EmptyAnalysisError) /\ UNCHANGED summary
             ELSE summary' = ResponseText(reply.text) /\ UNCHANGED thrown
    /\ pc' = IF strategy = "hybrid" THEN "done" ELSE "respond"
    /\ UNCHANGED <<pair, models, request, disk, imageBuffer, branches, merged, extractedText,
                   textPrompt, visionPrompt, calls, sent, response, responses>>

\* LLMService.analyzeText from the answer on
LlmSettle ==
    /\ strategy = "ocr"
    /\ GenerateSettle

----------------------------------------------------------------------------
(* Dual-parallel: DualOCRService *)

\* variant: the vision branch is sent a preconditioned copy
DualStartPreconditioned ==
    /\ pc = "analyze"
    /\ strategy = "dual"
    /\ tesseractResult' = Pending
    /\ visionResult' = Pending
    /\ visionPrompt' = VisionExtractInstruction
    /\ calls' = [calls EXCEPT !.ocr = @ + 1, !.vision = @ + 1]
    /\ sent' = [ocr |-> Image(imageBuffer, imageSize),
                vision |-> Image("optimized", resize(imageSize)),
                timeout |-> VisionRequestTimeout]
    /\ pc' = "parallel"
    /\ UNCHANGED <<pair, models, request, disk, imageBuffer, ocrEngineOut, visionBackendOut,
                   merged, textBackendOut, extractedText, textPrompt, outcome>>

\* the two branch promises are created, both calls are in flight
DualStart ==
    /\ pc = "analyze"
    /\ strategy = "dual"
    /\ tesseractResult' = Pending
    /\ visionResult' = Pending
    /\ visionPrompt' = VisionExtractInstruction
    /\ calls' = [calls EXCEPT !.ocr = @ + 1, !.vision = @ + 1]
    /\ sent' = [ocr |-> Image(imageBuffer, imageSize),
                vision |-> Image(imageBuffer, imageSize),
                timeout |-> VisionRequestTimeout]
    /\ pc' = "parallel"
    /\ UNCHANGED <<pair, models, request, disk, imageBuffer, ocrEngineOut, visionBackendOut,
                   merged, textBackendOut, extractedText, textPrompt, outcome>>

\* the OCR branch settles with its own engine's answer
SettleTesseract ==
    /\ pc = "parallel"
    /\ tesseractResult.status = "pending"
    /\ \E reply \in OcrReplies :
          /\ ocrEngineOut' = reply
          /\ tesseractResult' = runTesseractOCR(reply)
    /\ UNCHANGED <<pair, models, request, pc, disk, imageBuffer, visionResult, visionBackendOut,
                   merged, textBackendOut, extractedText, textPrompt, visionPrompt,
                   calls, sent, outcome>>

\* variant: a rejecting vision call also aborts the OCR branch still in flight
\* (the behaviour of a shared abort signal or of a fail-fast join)
SettleVisionAbortsSibling ==
    /\ pc = "parallel"
    /\ visionResult.status = "pending"
    /\ \E reply \in VisionReplies :
          /\ visionBackendOut' = reply
          /\ visionResult' = runVisionOCR(reply)
          /\ tesseractResult' =
                IF ~reply.ok /\ tesseractResult.status = "pending"
                THEN Rejected(PlainError(<<"aborted">>))
                ELSE tesseractResult
    /\ UNCHANGED <<pair, models, request, pc, disk, imageBuffer, ocrEngineOut,
                   merged, textBackendOut, extractedText, textPrompt, visionPrompt,
                   calls, sent, outcome>>

\* variant: a failed vision request is issued a second time
SettleVisionRetriesOnce ==
    /\ pc = "parallel"
    /\ visionResult.status = "pending"
    /\ \E reply \in VisionReplies :
          /\ visionBackendOut' = reply
          /\ IF ~reply.ok /\ calls.vision < 2
             THEN calls' = Called("vision") /\ UNCHANGED <<visionResult, sent>>
             ELSE visionResult' = runVisionOCR(reply) /\ UNCHANGED <<calls, sent>>
    /\ UNCHANGED <<pair, models, request, pc, disk, imageBuffer, tesseractResult, ocrEngineOut,
                   merged, textBackendOut, extractedText, textPrompt, visionPrompt,
                   outcome>>

\* the vision branch settles with its own backend's answer
SettleVision ==
    /\ pc = "parallel"
    /\ visionResult.status = "pending"
    /\ \E reply \in VisionReplies :
          /\ visionBackendOut' = reply
          /\ visionResult' = runVisionOCR(reply)
    /\ UNCHANGED <<pair, models, request, pc, disk, imageBuffer, tesseractResult, ocrEngineOut,
                   merged, textBackendOut, extractedText, textPrompt, visionPrompt,
                   calls, sent, outcome>>

\* variant: the join resumes only when both branches succeeded
AllFulfilled ==
    tesseractResult.status = "fulfilled" /\ visionResult.status = "fulfilled"

\* variant: the join resumes as soon as one branch has settled
FirstSettled == Settled(tesseractResult) \/ Settled(visionResult)

\* `await Promise.allSettled([...])` resumes
AllSettled == Settled(tesseractResult) /\ Settled(visionResult)

\* `let text = ''; if (result.status === 'fulfilled') text = result.value`
BranchText(r) == IF r.status = "fulfilled" THEN r.value ELSE <<>>

\* `logger.warn(... result.reason)` on a rejected branch
BranchWarning(r) == IF r.status = "rejected" THEN {r.reason} ELSE {}

\* variant: which branch's text leads the merge is not fixed
JoinAndMergeEitherOrder ==
    /\ pc = "parallel"
    /\ AllSettled
    /\ tesseractText' = BranchText(tesseractResult)
    /\ visionText' = BranchText(visionResult)
    /\ logged' = logged \cup BranchWarning(tesseractResult) \cup BranchWarning(visionResult)
    /\ combinedText' \in {combineOCRResults(tesseractText', visionText'),
                         combineOCRResults(visionText', tesseractText')}
    /\ IF combinedText' = <<>>
       THEN /\ thrown' = DualCatch(BothFailedError)
            /\ pc' = "respond"
            /\ UNCHANGED <<textPrompt, calls, sent>>
       ELSE /\ textPrompt' = contextualPrompt(ControllerPrompt, combinedText')
            /\ calls' = Called("text")
            /\ UNCHANGED sent
            /\ pc' = "generate"
            /\ UNCHANGED thrown
    /\ UNCHANGED <<pair, models, request, disk, imageBuffer, branches, textBackendOut,
                   extractedText, visionPrompt, summary, response, responses>>

\* after the barrier: texts are read, merged, `if (!combinedText) throw`,
\* and the text-model request is sent
JoinAndMerge ==
    /\ pc = "parallel"
    /\ AllSettled
    /\ tesseractText' = BranchText(tesseractResult)
    /\ visionText' = BranchText(visionResult)
    /\ logged' = logged \cup BranchWarning(tesseractResult) \cup BranchWarning(visionResult)
    /\ combinedText' = combineOCRResults(tesseractText', visionText')
    /\ IF combinedText' = <<>>
       THEN /\ thrown' = DualCatch(BothFailedError)
            /\ pc' = "respond"
            /\ UNCHANGED <<textPrompt, calls, sent>>
       ELSE /\ textPrompt' = contextualPrompt(ControllerPrompt, combinedText')
            /\ calls' = Called("text")
            /\ UNCHANGED sent
            /\ pc' = "generate"
            /\ UNCHANGED thrown
    /\ UNCHANGED <<pair, models, request, disk, imageBuffer, branches, textBackendOut,
                   extractedText, visionPrompt, summary, response, responses>>

\* DualOCRService.analyzeImage from the text model's answer on
DualAnalysisSettle ==
    /\ strategy = "dual"
    /\ GenerateSettle

----------------------------------------------------------------------------
(* Vision-only: MagicOCRService, and HybridService *)

\* variant: MagicOCRService sends the prompt it was given (`_prompt`) as the instruction
OptimizeWithCallerPrompt ==
    /\ pc = "analyze"
    /\ \E ok \in BOOLEAN :
          IF ok
          THEN /\ imageBuffer' = "optimized"
               /\ visionPrompt' = IF strategy = "magic" THEN ControllerPrompt
                                  ELSE VisionExtractInstruction
               /\ calls' = Called("vision")
               /\ sent' = [Handed("vision", Image("optimized", resize(imageSize)))
                             EXCEPT !.timeout = VisionRequestTimeout]
               /\ pc' = "vision"
               /\ UNCHANGED thrown
          ELSE /\ thrown' = ServiceCatch(PlainError(<<"Input buffer contains unsupported image format">>))
               /\ pc' = IF strategy = "hybrid" THEN "done" ELSE "respond"
               /\ UNCHANGED <<imageBuffer, visionPrompt, calls, sent>>
    /\ UNCHANGED <<pair, models, request, disk, branches, merged, textBackendOut, extractedText,
                   textPrompt, summary, response, responses>>

\* `sharp(imageBuffer).resize(...).jpeg(...).toBuffer()`, then the vision request
Optimize ==
    /\ pc = "analyze"
    /\ \E ok \in BOOLEAN :
          IF ok
          THEN /\ imageBuffer' = "optimized"
               /\ visionPrompt' = IF strategy = "magic" THEN MagicInstruction
                                  ELSE VisionExtractInstruction
               /\ calls' = Called("vision")
               /\ sent' = [Handed("vision", Image("optimized", resize(imageSize)))
                             EXCEPT !.timeout = VisionRequestTimeout]
               /\ pc' = "vision"
               /\ UNCHANGED thrown
          ELSE /\ thrown' = ServiceCatch(PlainError(<<"Input buffer contains unsupported image format">>))
               /\ pc' = IF strategy = "hybrid" THEN "done" ELSE "respond"
               /\ UNCHANGED <<imageBuffer, visionPrompt, calls, sent>>
    /\ UNCHANGED <<pair, models, request, disk, branches, merged, textBackendOut, extractedText,
                   textPrompt, summary, response, responses>>

\* MagicOCRService.analyzeImage up to its `await axios.post`
MagicOptimize == strategy = "magic" /\ Optimize

\* HybridService.analyzeImage up to its first `await axios.post`
HybridOptimize == strategy = "hybrid" /\ Optimize

\* MagicOCRService.analyzeImage from the vision model's answer on: the trimmed
\* answer is the summary
MagicVisionSettle ==
    /\ pc = "vision"
    /\ strategy = "magic"
    /\ \E reply \in VisionReplies :
          /\ visionBackendOut' = reply
          /\ IF ~reply.ok
             THEN thrown' = MagicCatch(reply.err) /\ UNCHANGED summary
             ELSE IF ResponseText(reply.text) = <<>>
             THEN /\ thrown' = MagicCatch(PlainError(<<"Empty text extracted from Magic OCR model">>))
                  /\ UNCHANGED summary
             ELSE summary' = ResponseText(reply.text) /\ UNCHANGED thrown
    /\ pc' = "respond"
    /\ UNCHANGED <<pair, models, request, disk, imageBuffer, tesseractResult, visionResult,
                   ocrEngineOut, merged, textBackendOut, extractedText, textPrompt,
                   visionPrompt, calls, sent, response, responses>>

\* HybridService.analyzeImage from the vision model's answer to the text request
HybridVisionSettle ==
    /\ pc = "vision"
    /\ strategy = "hybrid"
    /\ \E reply \in VisionReplies :
          /\ visionBackendOut' = reply
          /\ IF ~reply.ok \/ ResponseText(reply.text) = <<>>
             THEN /\ thrown' = HybridCatch(IF ~reply.ok THEN reply.err
                                           ELSE PlainError(<<"Vision model returned empty text">>))
                  /\ pc' = "done"
                  /\ UNCHANGED <<extractedText, textPrompt, calls, sent>>
             ELSE /\ extractedText' = ResponseText(reply.text)
                  /\ textPrompt' = hybridPrompt(xPrompt, extractedText')
                  /\ calls' = Called("text")
                  /\ UNCHANGED sent
                  /\ pc' = "generate"
                  /\ UNCHANGED thrown
    /\ UNCHANGED <<pair, models, request, disk, imageBuffer, tesseractResult, visionResult,
                   ocrEngineOut, merged, textBackendOut, visionPrompt, summary,
                   response, responses>>

\* HybridService.analyzeImage from the text model's answer on
HybridAnalysisSettle ==
    /\ strategy = "hybrid"
    /\ GenerateSettle

----------------------------------------------------------------------------
(* Controllers: response and cleanup *)

\* variant: the OCR-only controller answers with the extracted text
analysisOfOcrText == IF strategy = "ocr" THEN extractedText ELSE summary

\* `analysis: llmResult.summary` / `dualOCRResult.summary` / `ocrResult.summary`
analysisField == summary

\* `res.status(200).json(...)` with the service's summary, or `next(error)`
Respond ==
    /\ pc = "respond"
    /\ response' = IF thrown = NoErr THEN Success(analysisField) ELSE errorHandler(thrown)
    /\ responses' = responses + 1
    /\ pc' = IF ControllerTempDir THEN "finally" ELSE "done"
    /\ UNCHANGED <<pair, models, request, disk, imageBuffer, branches, merged, textBackendOut,
                   extractedText, textPrompt, visionPrompt, calls, sent, thrown, summary>>

\* variant: a failed removal is forwarded with `next(cleanupError)` instead of
\* being logged
CleanupForwardsFailure ==
    /\ pc = "finally"
    /\ IF tempDir
       THEN \E removed \in BOOLEAN :
               /\ rmOutcome' = IF removed THEN "removed" ELSE "failed"
               /\ dirExists' = IF removed THEN FALSE ELSE dirExists
               /\ pngExists' = IF removed THEN FALSE ELSE pngExists
               /\ IF removed \/ strategy = "ocr"
                  THEN UNCHANGED <<response, responses>>
                  ELSE /\ response' = errorHandler(IoError("rm failed"))
                       /\ responses' = responses + 1
       ELSE UNCHANGED <<dirExists, pngExists, rmOutcome, response, responses>>
    /\ pc' = IF strategy # "ocr" THEN "done"
             ELSE IF thrown = NoErr THEN "llm"
             ELSE "respond"
    /\ UNCHANGED <<pair, models, request, tempDir, rasterExit, imageBuffer, branches, merged,
                   textBackendOut, extractedText, textPrompt, visionPrompt, calls, sent,
                   thrown, summary>>

\* variant: `await fs.rm(...)` in the finally block without its own try/catch:
\* its rejection leaves the async handler, whose promise nobody awaits
CleanupUnguarded ==
    /\ pc = "finally"
    /\ IF tempDir
       THEN \E removed \in BOOLEAN :
               /\ rmOutcome' = IF removed THEN "removed" ELSE "failed"
               /\ dirExists' = IF removed THEN FALSE ELSE dirExists
               /\ pngExists' = IF removed THEN FALSE ELSE pngExists
               /\ pc' = IF ~removed THEN "unhandledRejection"
                        ELSE IF strategy # "ocr" THEN "done"
                        ELSE IF thrown = NoErr THEN "llm"
                        ELSE "respond"
       ELSE /\ UNCHANGED <<dirExists, pngExists, rmOutcome>>
            /\ pc' = IF strategy # "ocr" THEN "done"
                     ELSE IF thrown = NoErr THEN "llm"
                     ELSE "respond"
    /\ UNCHANGED <<pair, models, request, tempDir, rasterExit, imageBuffer, branches, merged,
                   textBackendOut, extractedText, textPrompt, visionPrompt, calls, sent,
                   outcome>>

\* variant: the directory is removed at the end of the try block only
CleanupOnSuccessOnly == tempDir /\ thrown = NoErr

\* `if (tempDir)` of the finally blocks
CleanupDue == tempDir

\* finally: `fs.rm(tempDir, {recursive, force})`, whose own failure is logged
\* and swallowed
Cleanup ==
    /\ pc = "finally"
    /\ IF CleanupDue
       THEN \E removed \in BOOLEAN :
               /\ rmOutcome' = IF removed THEN "removed" ELSE "failed"
               /\ dirExists' = IF removed THEN FALSE ELSE dirExists
               /\ pngExists' = IF removed THEN FALSE ELSE pngExists
       ELSE UNCHANGED <<dirExists, pngExists, rmOutcome>>
    /\ pc' = IF strategy # "ocr" THEN "done"
             ELSE IF thrown = NoErr THEN "llm"
             ELSE "respond"
    /\ UNCHANGED <<pair, models, request, tempDir, rasterExit, imageBuffer, branches, merged,
                   textBackendOut, extractedText, textPrompt, visionPrompt, calls, sent,
                   outcome>>

----------------------------------------------------------------------------

Next ==
    \/ authenticate
    \/ rateLimiter
    \/ upload
    \/ healthCheck
    \/ rootEndpoint
    \/ ValidateUpload
    \/ DebugMkdir
    \/ MakeTempDir
    \/ WritePdf
    \/ RunPdftocairo
    \/ ReadPng
    \/ DebugPng
    \/ DebugCopy
    \/ Recognize
    \/ DebugTxt
    \/ LlmStart
    \/ LlmSettle
    \/ DualStart
    \/ SettleTesseract
    \/ SettleVision
    \/ JoinAndMerge
    \/ DualAnalysisSettle
    \/ MagicOptimize
    \/ HybridOptimize
    \/ MagicVisionSettle
    \/ HybridVisionSettle
    \/ HybridAnalysisSettle
    \/ Respond
    \/ Cleanup

Spec == Init /\ [][Next]_vars

----------------------------------------------------------------------------
(* Vocabulary of the claims *)

DualRun == strategy = "dual"

\* the two branches were started and the awaited join has resumed
PastBarrier == DualRun /\ tesseractResult.status # "idle" /\ pc # "parallel"

BranchFailed(r) == r.status = "rejected"

BothBranchesFailed == BranchFailed(tesseractResult) /\ BranchFailed(visionResult)

ExactlyOneBranchFailed == BranchFailed(tesseractResult) # BranchFailed(visionResult)

\* the branch succeeded with non-empty text
YieldsText(r) == r.status = "fulfilled" /\ r.value # <<>>

Finished == pc = "done"

IsSuffix(t, s) == Len(t) <= Len(s) /\ SubSeq(s, Len(s) - Len(t) + 1, Len(s)) = t

\* the message carries the reason's text
Carries(message, reason) ==
    /\ reason.message # <<>>
    /\ \E i \in 1..Len(message) : IsSuffix(reason.message, SubSeq(message, 1, i))

HasLabel(s) == Contains(s, PrimaryLabel) \/ Contains(s, SupplementaryLabel)

TextModelAnswered == textBackendOut.ok /\ ResponseText(textBackendOut.text) # <<>>

----------------------------------------------------------------------------
(* Claims *)

\* C1: in every dual-parallel run in which both branches fail, the text model
\* receives zero requests and the run ends in failure with the 'both OCR
\* methods failed' error.
C1_BothFailedFailsWithoutTextModel ==
    (DualRun /\ BothBranchesFailed)
        => /\ calls.text = 0
           /\ Finished => /\ response.status = 500
                          /\ Carries(response.message, BothFailedError)

\* C2: the merged text is non-empty only if at least one branch succeeded with
\* non-empty text, and when neither did the text model is not called.
C2_CombinedNonEmptyOnlyFromText ==
    PastBarrier
        => /\ combinedText # <<>> => (YieldsText(tesseractResult) \/ YieldsText(visionResult))
           /\ ~(YieldsText(tesseractResult) \/ YieldsText(visionResult)) => calls.text = 0

\* C3: the merge and the text-model call of a dual-parallel run happen only
\* when both branches have settled.
C3_MergeAfterBothSettled ==
    (DualRun /\ (PastBarrier \/ calls.text > 0 \/ combinedText # <<>>))
        => (Settled(tesseractResult) /\ Settled(visionResult))

C3_Witness ==
    /\ DualRun
    /\ pc = "generate"
    /\ calls.text = 1
    /\ BranchFailed(visionResult)
    /\ YieldsText(tesseractResult)

\* C4: each branch of a dual-parallel run settles with the outcome of its own
\* backend whatever happened to its sibling, and the merge receives exactly
\* these outcomes.
C4_SiblingKeepsItsOwnOutcome ==
    DualRun
        => /\ Settled(tesseractResult)
                => IF ocrEngineOut.ok
                   THEN tesseractResult = Fulfilled(Trim(ocrEngineOut.text))
                   ELSE ocrEngineOut # NoReply /\ tesseractResult = Rejected(ocrEngineOut.err)
           /\ Settled(visionResult)
                => IF visionBackendOut.ok
                   THEN visionResult = Fulfilled(Trim(visionBackendOut.text))
                   ELSE visionBackendOut # NoReply /\ visionResult = Rejected(visionBackendOut.err)
           /\ PastBarrier
                => /\ tesseractText = (IF ocrEngineOut.ok THEN Trim(ocrEngineOut.text) ELSE <<>>)
                   /\ visionText = (IF visionBackendOut.ok THEN Trim(visionBackendOut.text) ELSE <<>>)

C4_Witness ==
    /\ PastBarrier
    /\ visionBackendOut = Failure(AxiosTimeout)
    /\ ocrEngineOut.ok
    /\ tesseractText = <<"a", "b">>

\* C5: when exactly one branch fails and the text model answers with non-empty
\* text, the run succeeds, the text handed on is the surviving branch's text
\* unmodified, and the failing branch's reason is nowhere in the result.
C5_SurvivorTextUnmodified ==
    (PastBarrier /\ ExactlyOneBranchFailed /\ TextModelAnswered /\ Finished)
        => /\ response.status = 200
           /\ combinedText = (IF BranchFailed(tesseractResult) THEN visionResult.value
                              ELSE tesseractResult.value)
           /\ ~Carries(response.analysis, tesseractResult.reason)
           /\ ~Carries(response.analysis, visionResult.reason)

C7_SingleTextWithoutLabels ==
    (PastBarrier /\ (YieldsText(tesseractResult) # YieldsText(visionResult)))
        => /\ combinedText = (IF YieldsText(tesseractResult) THEN tesseractResult.value
                              ELSE visionResult.value)
           /\ ~HasLabel(combinedText)
           /\ calls.text = 1 /\ ~HasLabel(textPrompt)

C7_Witness ==
    /\ PastBarrier
    /\ tesseractResult = Fulfilled(<<"a", "b">>)
    /\ visionResult = Fulfilled(<<>>)
    /\ combinedText = <<"a", "b">>
    /\ pc = "generate"

\* C8: when a dual-parallel run in which both branches failed ends in failure,
\* the failure reported to the caller carries both branches' reasons.
C8_FailureCarriesBothReasons ==
    (PastBarrier /\ BothBranchesFailed /\ Finished /\ response.status = 500)
        => /\ Carries(response.message, tesseractResult.reason)
           /\ Carries(response.message, visionResult.reason)

Succeeded ==
    \/ endpoint = "analyze" /\ response.status = 200
    \/ strategy = "hybrid" /\ Finished /\ thrown = NoErr

Returned == IF strategy = "hybrid" THEN summary ELSE response.analysis

\* the text extracted or merged, which the text model is to analyse
SourceText == IF DualRun THEN combinedText ELSE extractedText

TextModelDidIt ==
    /\ calls.text = 1
    /\ SourceText # <<>>
    /\ IsSuffix(SourceText, textPrompt)
    /\ textBackendOut.ok
    /\ Returned = Trim(textBackendOut.text)

\* C10 (as stated): in every successful request of every strategy the text
\* model was invoked on the extracted or merged text and the analysis returned
\* is that call's output.
C10_EverySuccessIsTextModelOutput ==
    Succeeded => TextModelDidIt

\* C10 (amended): that holds for OCR-only, dual-parallel and HybridService; a
\* successful magic-ocr request never invokes the text model and returns the
\* vision model's trimmed answer.
C10_SuccessIsTextModelOutputExceptMagic ==
    Succeeded
        => IF strategy = "magic"
           THEN /\ calls.text = 0
                /\ visionBackendOut.ok
                /\ Returned = Trim(visionBackendOut.text)
           ELSE TextModelDidIt

C10_Witness ==
    /\ strategy = "ocr"
    /\ response.status = 200
    /\ response.analysis = <<"x">>
    /\ extractedText = <<"a", "b">>

----------------------------------------------------------------------------

\* the text-model call of this run has settled
TextModelSettled == textBackendOut # NoReply

\* what the caller is told when the text-model call of a dual run failed
DualTextFailure ==
    IF textBackendOut.ok
    THEN <<"Failed to process with dual OCR: ", "Text model returned empty analysis">>
    ELSE IF textBackendOut.err.kind = "timeout"
    THEN <<"Dual OCR processing request timed out">>
    ELSE IF textBackendOut.err.kind = "notfound"
    THEN <<"Model not found - ensure both vision and text models are available">>
    ELSE <<"Failed to process with dual OCR: ">> \o textBackendOut.err.message

\* C11: once the text-model call of a dual-parallel run has settled, the run
\* returns a summary if and only if the text model answered with text that is
\* non-empty after trimming, the summary is that trimmed text, and otherwise
\* the run fails with the text-model call's failure (timeout, model not found,
\* empty answer, other backend error) and returns no summary; the response of
\* the request follows the same rule.
C11_DualOutcomeIsTextModelOutcome ==
    (DualRun /\ TextModelSettled)
        => /\ PastBarrier
           /\ IF TextModelAnswered
              THEN thrown = NoErr /\ summary = Trim(textBackendOut.text)
              ELSE /\ summary = <<>>
                   /\ thrown.kind = "plain"
                   /\ thrown.message = DualTextFailure
           /\ response.status = 200
                => TextModelAnswered /\ response.analysis = Trim(textBackendOut.text)
           /\ response.status # 0 /\ ~TextModelAnswered
                => response.status = 500 /\ response.message = DualTextFailure
           /\ response.status # 0 /\ TextModelAnswered => response.status = 200

C11_Witness ==
    /\ DualRun
    /\ Finished
    /\ textBackendOut = Answer(<<" ">>)
    /\ response.status = 500
    /\ combinedText # <<>>

----------------------------------------------------------------------------

VisionTimedOut == visionBackendOut = Failure(AxiosTimeout)

\* the timeout message of the service's catch block, as opposed to its
\* generic 'Failed to ...: ' + message
VisionTimeoutMessage ==
    IF strategy = "magic"
    THEN <<"Magic OCR request timed out - try a smaller image or increase timeout">>
    ELSE <<"Hybrid processing request timed out">>

\* C12: a vision-model call that times out ends as a timeout failure and not
\* as the generic backend failure: in MagicOCRService and HybridService the run
\* fails with the timeout message of the service; in a dual-parallel run the
\* vision branch is rejected with the timeout itself, the OCR branch can still
\* settle and settles with its own engine's outcome, and when it yields text
\* that text alone is the merged text the text model is asked about.
C12_VisionTimeoutIsTimeoutAndSparesSibling ==
    VisionTimedOut
        => IF DualRun
           THEN /\ visionResult = Rejected(AxiosTimeout)
                /\ tesseractResult.status = "pending" => ENABLED SettleTesseract
                /\ Settled(tesseractResult)
                     => tesseractResult = runTesseractOCR(ocrEngineOut)
                /\ PastBarrier /\ YieldsText(tesseractResult)
                     => /\ combinedText = tesseractResult.value
                        /\ calls.text = 1
                        /\ IsSuffix(tesseractResult.value, textPrompt)
           ELSE /\ thrown = PlainError(VisionTimeoutMessage)
                /\ summary = <<>>
                /\ calls.text = 0
                /\ response.status # 0
                     => response.status = 500 /\ response.message = VisionTimeoutMessage

C12_Witness ==
    /\ DualRun
    /\ VisionTimedOut
    /\ tesseractResult = Fulfilled(<<"a", "b">>)
    /\ response.status = 200
    /\ combinedText = <<"a", "b">>

C12_WitnessVisionOnly ==
    /\ strategy = "magic"
    /\ VisionTimedOut
    /\ response.status = 500

----------------------------------------------------------------------------

VisionOnly == strategy \in {"magic", "hybrid"}

VisionModelNotFound == visionBackendOut = Failure(AxiosNotFound)

VisionNotFoundMessage ==
    IF strategy = "magic"
    THEN <<"Magic OCR model not found - please pull it">>
    ELSE <<"Model not found - ensure both vision and text models are available">>

\* C13: in MagicOCRService and HybridService, when the vision backend answers
\* that the model does not exist, the run fails with the model-not-found
\* message of the service, no summary is produced, the vision call stays the
\* only adapter call of the request, and the request is answered with that
\* failure.
C13_ModelNotFoundEndsVisionOnlyRun ==
    (VisionOnly /\ VisionModelNotFound)
        => /\ thrown = PlainError(VisionNotFoundMessage)
           /\ summary = <<>>
           /\ calls = [NoCalls EXCEPT !.vision = 1,
                                      !.raster = IF fileType = "pdf" THEN 1 ELSE 0]
           /\ textBackendOut = NoReply
           /\ pc \in {"respond", "finally", "done"}
           /\ response.status # 0
                => response.status = 500 /\ response.message = VisionNotFoundMessage

C13_Witness ==
    /\ strategy = "hybrid"
    /\ VisionModelNotFound
    /\ Finished
    /\ thrown.message = <<"Model not found - ensure both vision and text models are available">>

----------------------------------------------------------------------------

OcrOnly == strategy = "ocr"

\* the OCR engine threw, or its text is empty after trimming
OcrAdapterFailed ==
    /\ OcrOnly
    /\ ocrEngineOut # NoReply
    /\ ~ocrEngineOut.ok \/ Trim(ocrEngineOut.text) = <<>>

ExtractionFailure ==
    IF fileType = "pdf"
    THEN <<"Failed to extract text from PDF: ",
           IF ocrEngineOut.ok THEN "No text extracted from PDF image"
           ELSE "tesseract engine error">>
    ELSE <<"Failed to extract text from image: ",
           IF ocrEngineOut.ok THEN "No text extracted from image"
           ELSE "tesseract engine error">>

OcrFailureFailsRequest ==
    /\ thrown = PlainError(ExtractionFailure)
    /\ calls.text = 0
    /\ textBackendOut = NoReply
    /\ response.status # 0
         => response.status = 500 /\ response.message = ExtractionFailure

----------------------------------------------------------------------------

\* pdftocairo exited non-zero, or exited without page.png and the read of the
\* missing file has been attempted
RendererFailed ==
    \/ rasterExit = "nonzero"
    \/ rasterExit = "nopng" /\ pc # "readFile"

RasterizationFailure ==
    (IF OcrOnly THEN <<"Failed to extract text from PDF: ">> ELSE <<>>)
        \o <<IF rasterExit = "nonzero" THEN "Command failed: pdftocairo"
              ELSE "ENOENT: page.png">>

RendererFailureFailsRequest ==
    /\ thrown = PlainError(RasterizationFailure)
    /\ calls = [NoCalls EXCEPT !.raster = 1]
    /\ ocrEngineOut = NoReply /\ visionBackendOut = NoReply /\ textBackendOut = NoReply
    /\ response.status # 0
         => response.status = 500 /\ response.message = RasterizationFailure

----------------------------------------------------------------------------

Collaborators == {"raster", "ocr", "vision", "text"}

\* C16: within one request the PDF renderer, the OCR engine, the vision
\* backend and the text-model backend are each invoked at most once, whatever
\* they answer.
C16_EachCollaboratorInvokedAtMostOnce ==
    \A c \in Collaborators : calls[c] <= 1

C16_Witness ==
    /\ Finished
    /\ calls = [raster |-> 1, ocr |-> 1, vision |-> 1, text |-> 1]
    /\ visionBackendOut = Failure(AxiosOther)
    /\ textBackendOut = Failure(AxiosTimeout)
    /\ response.status = 500

----------------------------------------------------------------------------

\* what the debug writes throw: fs.mkdir of the debug directory, fs.copyFile of
\* the PNG, fs.writeFile of the PNG or of the text
DebugSinkFailures == {"mkdir failed", "copyFile failed", "debug write failed"}

\* C17: no request is answered with a failure of the debug sink: a failing
\* creation of the debug directory or a failing write or copy of a debug file
\* does not become the outcome of the request.
C17_DebugFailureNeverFailsRequest ==
    \A w \in DebugSinkFailures : ~Contains(response.message, w)

----------------------------------------------------------------------------

\* the X-API-Key header is non-empty and is one of the configured keys
KeyValid == apiKey # "" /\ apiKey \in {cardocKey, mortgageKey}

\* the request got no further than the key test and is answered 401
RejectedForKey ==
    /\ pc \in {"authenticate", "root", "done"}
    /\ calls = NoCalls
    /\ ~tempDir
    /\ imageBuffer = "none"
    /\ ocrEngineOut = NoReply /\ visionBackendOut = NoReply /\ textBackendOut = NoReply
    /\ Finished
         => response = Unauthorized(IF apiKey = "" THEN "MISSING_API_KEY"
                                    ELSE "INVALID_API_KEY")

----------------------------------------------------------------------------

\* the instruction part of the prompt body LLMService sent
SentInstruction(prompt) == textPrompt = fullPrompt(prompt, extractedText)

\* C19: in a /documents/analyze request that reaches the text model, the
\* instruction sent is the multipart form field `prompt` when the caller
\* supplied one, and the default prompt only when the caller supplied none.
C19_FormPromptIsTheInstruction ==
    (endpoint = "analyze" /\ OcrOnly /\ calls.text = 1)
        => /\ formPrompt # <<>> => SentInstruction(formPrompt)
           /\ SentInstruction(ConfigDefaultPrompt) => formPrompt = <<>>

----------------------------------------------------------------------------

\* the request was answered with something else than its result
Failed == response.status \notin {0, 200}

StructuredError ==
    /\ ~response.success
    /\ response.code # ""
    /\ response.message # <<>>
    /\ response.analysis = <<>>

\* C20: every request over HTTP is answered exactly once; every answer that is
\* not the result is a body with success = false, a code and a message; an
\* error thrown by a middleware, a controller or a service is answered 500
\* INTERNAL_ERROR with the error's message; and the stack is in the body only
\* when NODE_ENV is 'development', never in production.
C20_EveryFailureIsOneStructuredBody ==
    /\ responses <= 1
    /\ (endpoint # "service" /\ Finished) => responses = 1
    /\ responses = 1 <=> response # NoResponse
    /\ Failed => StructuredError /\ response.status \in {400, 401, 429, 500}
    /\ (endpoint = "analyze" /\ thrown # NoErr /\ Finished)
         => /\ response.status = 500
            /\ response.code = "INTERNAL_ERROR"
            /\ response.message = thrown.message
    /\ response.details # "" => response.status = 500 /\ nodeEnv = "development"

C20_Witness ==
    /\ Finished
    /\ nodeEnv = "production"
    /\ thrown = PlainError(<<"Failed to process with dual OCR: ", "Network Error">>)
    /\ response.status = 500
    /\ response.details = ""
    /\ responses = 1

----------------------------------------------------------------------------

\* the OCR engine answered, and its text is empty after trimming
OcrOutputBlank == ocrEngineOut.ok /\ Trim(ocrEngineOut.text) = <<>>

\* the vision backend answered, and its response is empty after trimming
VisionOutputBlank == visionBackendOut.ok /\ ResponseText(visionBackendOut.text) = <<>>

\* C21: an OCR engine output that is empty or whitespace-only after trimming
\* ends as a failure of the OCR adapter: on the OCR-only path the service
\* throws, and in a dual-parallel run the OCR branch is rejected, never
\* fulfilled with empty text.
C21_BlankOcrOutputIsFailure ==
    OcrOutputBlank
        => IF DualRun
           THEN tesseractResult.status = "rejected"
           ELSE thrown # NoErr /\ extractedText = <<>>

\* C22: a vision backend response without text after trimming ends as an
\* empty-response failure of the vision adapter: MagicOCRService and
\* HybridService throw, and in a dual-parallel run the vision branch is
\* rejected, never fulfilled with empty text.
C22_BlankVisionOutputIsFailure ==
    VisionOutputBlank
        => IF DualRun
           THEN visionResult.status = "rejected"
           ELSE thrown # NoErr /\ summary = <<>> /\ extractedText = <<>>

----------------------------------------------------------------------------

\* the stage of the request: 0 Start, 1 rasterizing, 2 Rasterized,
\* 3 Extracting, 4 extracted and merged, 5 Analyzing, 6 Done or Failed.
\* OCRService removes its temp directory before it returns, so its finally
\* block belongs to the extraction when nothing was thrown.
Phase ==
    CASE pc \in {"authenticate", "rateLimiter", "upload", "handler", "health", "root"} -> 0
      [] pc \in {"debugMkdir", "mkdtemp", "writeFile", "pdftocairo", "readFile"} -> 1
      [] pc \in {"debugPng", "debugCopy"} -> 2
      [] pc \in {"analyze", "recognize", "parallel", "vision", "debugTxt"} -> 3
      [] pc = "finally" /\ OcrOnly /\ thrown = NoErr -> 3
      [] pc = "llm" -> 4
      [] pc = "generate" -> 5
      [] OTHER -> 6

ExtractionStarted == calls.ocr + calls.vision > 0

ExtractionFinished ==
    CASE DualRun -> PastBarrier /\ Settled(tesseractResult) /\ Settled(visionResult)
      [] OcrOnly -> ocrEngineOut.ok /\ extractedText # <<>>
      [] OTHER -> visionBackendOut.ok /\ extractedText # <<>>

\* nothing of the outcome changes once the request is Done or Failed
OutcomeKept ==
    /\ calls' = calls
    /\ thrown' = thrown
    /\ summary' = summary
    /\ response # NoResponse => response' = response
    /\ <<ocrEngineOut, visionBackendOut, textBackendOut>>'
         = <<ocrEngineOut, visionBackendOut, textBackendOut>>

\* C23: a request never moves back to an earlier stage; an extraction adapter
\* is started for a PDF only after pdftocairo has written the page and it has
\* been read; the text model is called only after the extraction (and in a
\* dual run the merge) has finished; and once the request is Done or Failed no
\* adapter is called and the outcome does not change, and nothing at all
\* happens after the handler's last step.
C23_StagesInOrderAndTerminal ==
    /\ [][Phase' >= Phase]_vars
    /\ []((ExtractionStarted /\ fileType = "pdf")
            => rasterExit = "png" /\ calls.raster = 1 /\ imageBuffer \in {"png", "optimized"})
    /\ [](calls.text = 1 => ExtractionFinished /\ Phase >= 5)
    /\ [][Phase = 6 => OutcomeKept]_vars
    /\ [][pc # "done"]_vars

C23_Witness ==
    /\ DualRun
    /\ fileType = "pdf"
    /\ Finished
    /\ calls = [raster |-> 1, ocr |-> 1, vision |-> 1, text |-> 1]
    /\ response.status = 200
    /\ rmOutcome = "removed"

----------------------------------------------------------------------------

\* the instruction of the request: the caller's, or the controller's default
DualInstruction ==
    IF xPrompt # <<>> THEN xPrompt
    ELSE <<"Extract all text and data from this document and return as structured JSON.">>

\* C24: in every dual-parallel run that reaches the text model, whether two,
\* one or no branch yielded text, the prompt sent is the caller's instruction
\* (the default instruction when there is none), then the explanation of the
\* two OCR passes, then the merged text, in that order and with nothing else.
C24_DualPromptIsInstructionFramingCombinedText ==
    (DualRun /\ calls.text = 1)
        => /\ textPrompt = DualInstruction \o <<DualContext>> \o combinedText
           /\ combinedText # <<>>

C24_Witness ==
    /\ DualRun
    /\ calls.text = 1
    /\ BranchFailed(visionResult)
    /\ xPrompt = <<"p">>
    /\ textPrompt = <<"p", DualContext, "a", "b">>

----------------------------------------------------------------------------

\* the image was preconditioned and handed to the vision model
Preconditioned == sent.vision.bytes = "optimized"

Longer(size) == IF size[1] >= size[2] THEN size[1] ELSE size[2]

Dist(a, b) == IF a >= b THEN a - b ELSE b - a

\* the proportions are kept, up to the rounding of the height to whole pixels
AspectKept(in, out) == 2 * Dist(out[2] * in[1], in[2] * out[1]) <= in[1]

NotUpscaled(in, out) == out[1] <= in[1] /\ out[2] <= in[2]

\* C25 (as stated): for every width and height the preconditioned image has a
\* longer dimension of at most 1024 px, the proportions of the input, and no
\* dimension above the input's, portrait images included.
C25_LongerDimensionBounded ==
    Preconditioned
        => /\ Longer(sent.vision.size) <= 1024
           /\ AspectKept(imageSize, sent.vision.size)
           /\ NotUpscaled(imageSize, sent.vision.size)

\* C25 (amended): for every width and height the preconditioned image has a
\* width of at most 1024 px, the proportions of the input, and no dimension
\* above the input's; the height is bounded only through the width, and an
\* image that is not wider than 1024 px keeps its dimensions whatever its
\* height.
C25_WidthBounded ==
    Preconditioned
        => /\ sent.vision.size[1] <= 1024
           /\ AspectKept(imageSize, sent.vision.size)
           /\ NotUpscaled(imageSize, sent.vision.size)
           /\ imageSize[1] <= 1024 => sent.vision.size = imageSize
           /\ imageSize[1] > 1024 => sent.vision.size[1] = 1024

C25_Witness ==
    /\ strategy = "magic"
    /\ imageSize = <<1240, 1754>>
    /\ sent.vision = Image("optimized", <<1024, 1448>>)
    /\ visionBackendOut # NoReply

----------------------------------------------------------------------------

\* the image the controller handed to the service: the upload, or the page
\* rendered from it
GivenImage == Image(IF fileType = "pdf" THEN "png" ELSE "upload", imageSize)

\* C26: in a dual-parallel run the OCR branch and the vision branch are both
\* handed the image the service was given, not a preconditioned one, and from
\* the start of the service to the end of the request the service's image
\* buffer is not changed.
C26_DualBranchesGetTheGivenBytes ==
    /\ []((DualRun /\ ExtractionStarted)
            => /\ sent.ocr = GivenImage
               /\ sent.vision = GivenImage
               /\ imageBuffer = GivenImage.bytes)
    /\ [][(DualRun /\ ExtractionStarted) => imageBuffer' = imageBuffer]_vars

C26_Witness ==
    /\ DualRun
    /\ Finished
    /\ fileType = "pdf"
    /\ sent.ocr = Image("png", PageSize)
    /\ sent.vision = Image("png", PageSize)
    /\ response.status = 200

----------------------------------------------------------------------------

\* the controller has handed the image to its extraction strategy
StrategyEntered ==
    /\ endpoint = "analyze"
    /\ \/ pc \in {"analyze", "recognize"}
       \/ ExtractionStarted

\* C27: for an uploaded image pdftocairo is never run, no temp directory is
\* made and nothing is written to disk, and the strategy is handed the
\* uploaded bytes; a strategy that is handed anything else was handed the page
\* rendered by the one pdftocairo run of a PDF upload.
C27_ImagesAreUsedAsUploaded ==
    /\ (endpoint = "analyze" /\ fileType = "image")
         => /\ calls.raster = 0 /\ rasterExit = "none"
            /\ ~tempDir /\ ~dirExists /\ ~pngExists /\ rmOutcome = "none"
            /\ pc \in {"analyze", "recognize"} => imageBuffer = "upload"
            /\ (OcrOnly /\ ExtractionStarted) => sent.ocr = Image("upload", imageSize)
            /\ (DualRun /\ ExtractionStarted)
                 => sent.ocr = Image("upload", imageSize) /\ sent.vision = sent.ocr
            /\ (strategy = "magic" /\ ExtractionStarted)
                 => sent.vision = Image("optimized", resize(imageSize))
    /\ (StrategyEntered /\ fileType # "image")
         => /\ fileType = "pdf"
            /\ calls.raster = 1 /\ rasterExit = "png"
            /\ tempDir
            /\ imageBuffer \in {"png", "optimized"}

C27_Witness ==
    /\ OcrOnly
    /\ fileType = "image"
    /\ Finished
    /\ sent.ocr = Image("upload", imageSize)
    /\ response.status = 200
    /\ calls.raster = 0

----------------------------------------------------------------------------

\* the instruction the service works with
Instruction ==
    CASE OcrOnly -> IF xPrompt # <<>> THEN xPrompt
                    ELSE <<"Analyze this document and provide a concise summary with key information.">>
      [] strategy = "hybrid"
           -> IF xPrompt # <<>> THEN xPrompt
              ELSE <<"Analyze the following document text and extract key information as structured JSON.">>
      [] OTHER -> DualInstruction

\* C28 (as stated): every text-model request carries one prompt body: the
\* instruction, one blank line, the source text.
C28_PromptIsInstructionBlankLineText ==
    calls.text = 1 => textPrompt = Instruction \o <<"\n\n">> \o SourceText

\* C28 (amended): that is the prompt body of LLMService.analyzeText, the
\* text-model adapter of the OCR-only strategy; HybridService puts the line
\* 'Document text:' after the blank line, and DualOCRService puts its
\* explanation of the two OCR passes between the instruction and the text; in
\* all three the instruction comes first and the source text last, in one body.
C28_PromptIsInstructionSeparatorText ==
    calls.text = 1
        => /\ textPrompt = Instruction
                \o <<CASE OcrOnly -> "\n\n"
                       [] strategy = "hybrid" -> "\n\nDocument text:\n"
                       [] OTHER -> DualContext>>
                \o SourceText
           /\ Instruction # <<>>

C28_Witness ==
    /\ OcrOnly
    /\ calls.text = 1
    /\ xPrompt = <<"p">>
    /\ textPrompt = <<"p", "\n\n", "a", "b">>

----------------------------------------------------------------------------

\* the text model answered, and its answer is empty after trimming
TextOutputBlank == textBackendOut.ok /\ Trim(textBackendOut.text) = <<>>

EmptyResponseFailure ==
    CASE OcrOnly -> <<"Failed to analyze text with Ollama: ",
                      "Empty analysis received from Ollama">>
      [] DualRun -> <<"Failed to process with dual OCR: ",
                      "Text model returned empty analysis">>
      [] OTHER -> <<"Failed to process with hybrid approach: ",
                    "Text model returned empty analysis">>

\* a service has returned its result
ResultReturned ==
    /\ thrown = NoErr
    /\ strategy \in Strategies
    /\ IF strategy = "hybrid" THEN Finished ELSE pc \in {"respond", "finally", "done"}
    /\ textBackendOut # NoReply \/ visionBackendOut # NoReply

\* C29: in every strategy a text-model answer that is empty after trimming
\* makes the service throw its empty-analysis error, and the request is
\* answered with that failure; no service returns, and no request is answered
\* with, a summary that is empty or blank.
C29_BlankAnalysisIsFailure ==
    /\ TextOutputBlank
         => /\ thrown = PlainError(EmptyResponseFailure)
            /\ summary = <<>>
            /\ response # NoResponse
                 => response.status = 500 /\ response.message = EmptyResponseFailure
    /\ ResultReturned => summary # <<>> /\ Trim(summary) = summary
    /\ Succeeded => Returned # <<>> /\ Trim(Returned) = Returned

C29_Witness ==
    /\ OcrOnly
    /\ textBackendOut = Answer(<<" ", " ">>)
    /\ Finished
    /\ response.status = 500
    /\ extractedText = <<"a">>

----------------------------------------------------------------------------

\* a deadline of tens of seconds, in ms
TensOfSeconds(ms) == ms >= 10000 /\ ms < 100000

\* a deadline of many minutes, in ms
ManyMinutes(ms) == ms >= 600000

----------------------------------------------------------------------------
(* Requests side by side: the rasterization directories of two requests    *)
(* that are in flight at the same time, on one file system                 *)

\* everything of the single request, at rest while other things are looked at
single == <<request, pc, disk, imageBuffer, branches, merged, textBackendOut,
            extractedText, textPrompt, visionPrompt, calls, sent, outcome>>

Parked ==
    /\ endpoint = "analyze"
    /\ apiKey = "k1"
    /\ cardocKey = "k1"
    /\ mortgageKey = ""
    /\ nodeEnv = "production"
    /\ formPrompt = <<>>
    /\ imageSize = PageSize
    /\ hasFile = TRUE
    /\ fileType = "pdf"
    /\ xPrompt = <<>>
    /\ tempDir = FALSE
    /\ dirExists = FALSE
    /\ pngExists = FALSE
    /\ rasterExit = "none"
    /\ rmOutcome = "none"
    /\ imageBuffer = "none"
    /\ tesseractResult = Idle
    /\ visionResult = Idle
    /\ ocrEngineOut = NoReply
    /\ visionBackendOut = NoReply
    /\ textBackendOut = NoReply
    /\ tesseractText = <<>>
    /\ visionText = <<>>
    /\ combinedText = <<>>
    /\ extractedText = <<>>
    /\ textPrompt = <<>>
    /\ visionPrompt = <<>>
    /\ calls = NoCalls
    /\ sent = NothingSent
    /\ thrown = NoErr
    /\ summary = <<>>
    /\ response = NoResponse
    /\ responses = 0
    /\ logged = {}

Requests == {1, 2}

\* the characters mkdtemp appends to the prefix
Suffixes == {"a", "b"}

\* who rasterizes: OCRService.extractTextFromPDF, DocumentVLController
Kinds == {"ocr", "dual"}

Prefix(kind) == IF kind = "ocr" THEN "doc-intel-" ELSE "doc-intel-vl-"

NoDir == <<>>

Waiting == [kind |-> "ocr", pc |-> "idle", tempDir |-> NoDir, needs |-> {}]

\* variant: a fixed directory name, made with `mkdir(..., {recursive: true})`
mkdirFixedName(prefix) == {<<prefix, "a">>}

\* `fs.mkdtemp(prefix)`: a directory that did not exist, named prefix + suffix
mkdtemp(prefix) == {<<prefix, x>> : x \in Suffixes} \ tmpDirs

InitPair ==
    /\ Parked
    /\ strategy = "ocr"
    /\ pc = "done"
    /\ saveFiles \in BOOLEAN
    /\ tmpDirs = {}
    /\ tmpFiles = {}
    /\ inflight = [r \in Requests |-> Waiting]
    /\ lastAccess = <<>>
    /\ NoModels

At(r, where) == inflight[r].pc = where

\* the request's position, directory variable and needed files change
Step(r, where, dir, needs) ==
    inflight' = [inflight EXCEPT ![r] = [kind |-> inflight[r].kind, pc |-> where,
                                         tempDir |-> dir, needs |-> needs]]

\* a throw inside the try block: the finally block is next
Caught(r) == Step(r, "finally", inflight[r].tempDir, {})

\* a PDF arrives at one of the two rasterizing handlers
Accept(r) ==
    /\ At(r, "idle")
    /\ \E kind \in Kinds :
          inflight' = [inflight EXCEPT ![r] = [kind |-> kind, pc |-> "mkdtemp",
                                               tempDir |-> NoDir, needs |-> {}]]
    /\ UNCHANGED <<single, models, tmpDirs, tmpFiles, lastAccess>>

\* `tempDir = await fs.mkdtemp(path.join(os.tmpdir(), prefix))`
PairMakeTempDir(r) ==
    /\ At(r, "mkdtemp")
    /\ \/ \E dir \in mkdtemp(Prefix(inflight[r].kind)) :
             /\ tmpDirs' = tmpDirs \cup {dir}
             /\ lastAccess' = <<r, dir>>
             /\ Step(r, "writeFile", dir, {})
       \/ /\ Caught(r)
          /\ UNCHANGED <<tmpDirs, lastAccess>>
    /\ UNCHANGED <<single, models, tmpFiles>>

\* `await fs.writeFile(path.join(tempDir, 'input.pdf'), buffer)`
PairWritePdf(r) ==
    /\ At(r, "writeFile")
    /\ lastAccess' = <<r, inflight[r].tempDir>>
    /\ \/ /\ inflight[r].tempDir \in tmpDirs
          /\ tmpFiles' = tmpFiles \cup {<<inflight[r].tempDir, "input.pdf">>}
          /\ Step(r, "pdftocairo", inflight[r].tempDir, {"input.pdf"})
       \/ /\ Caught(r)
          /\ UNCHANGED tmpFiles
    /\ UNCHANGED <<single, models, tmpDirs>>

\* `pdftocairo -png -f 1 -l 1 -singlefile input.pdf page`
PairRunPdftocairo(r) ==
    /\ At(r, "pdftocairo")
    /\ lastAccess' = <<r, inflight[r].tempDir>>
    /\ \/ /\ <<inflight[r].tempDir, "input.pdf">> \in tmpFiles
          /\ tmpFiles' = tmpFiles \cup {<<inflight[r].tempDir, "page.png">>}
          /\ Step(r, "readFile", inflight[r].tempDir, {"page.png"})
       \/ /\ Caught(r)
          /\ UNCHANGED tmpFiles
    /\ UNCHANGED <<single, models, tmpDirs>>

\* `await fs.readFile(pngPath)`; OCRService copies the file afterwards when
\* config.debug.saveFiles is set
PairReadPng(r) ==
    /\ At(r, "readFile")
    /\ lastAccess' = <<r, inflight[r].tempDir>>
    /\ IF <<inflight[r].tempDir, "page.png">> \in tmpFiles
       THEN IF inflight[r].kind = "ocr" /\ saveFiles
            THEN Step(r, "copyFile", inflight[r].tempDir, {"page.png"})
            ELSE Step(r, "extract", inflight[r].tempDir, {})
       ELSE Caught(r)
    /\ UNCHANGED <<single, models, tmpDirs, tmpFiles>>

\* `await fs.copyFile(pngPath, debugPngPath)`
PairDebugCopy(r) ==
    /\ At(r, "copyFile")
    /\ lastAccess' = <<r, inflight[r].tempDir>>
    /\ IF <<inflight[r].tempDir, "page.png">> \in tmpFiles
       THEN \E ok \in BOOLEAN :
               IF ok THEN Step(r, "extract", inflight[r].tempDir, {})
               ELSE Caught(r)
       ELSE Caught(r)
    /\ UNCHANGED <<single, models, tmpDirs, tmpFiles>>

\* the extraction on the bytes in memory (Tesseract.recognize, or
\* dualOCRService.analyzeImage), ended either way
PairExtract(r) ==
    /\ At(r, "extract")
    /\ Caught(r)
    /\ UNCHANGED <<single, models, tmpDirs, tmpFiles, lastAccess>>

\* finally: `if (tempDir) { try { await fs.rm(tempDir, {recursive, force}) }
\* catch { log } }`
PairCleanup(r) ==
    /\ At(r, "finally")
    /\ IF inflight[r].tempDir # NoDir
       THEN /\ lastAccess' = <<r, inflight[r].tempDir>>
            /\ \E removed \in BOOLEAN :
                  IF removed
                  THEN /\ tmpDirs' = tmpDirs \ {inflight[r].tempDir}
                       /\ tmpFiles' = {f \in tmpFiles : f[1] # inflight[r].tempDir}
                  ELSE UNCHANGED <<tmpDirs, tmpFiles>>
       ELSE UNCHANGED <<tmpDirs, tmpFiles, lastAccess>>
    /\ inflight' = [inflight EXCEPT ![r] = Waiting]
    /\ UNCHANGED <<single, models>>

NextPair ==
    \E r \in Requests :
        \/ Accept(r)
        \/ PairMakeTempDir(r)
        \/ PairWritePdf(r)
        \/ PairRunPdftocairo(r)
        \/ PairReadPng(r)
        \/ PairDebugCopy(r)
        \/ PairExtract(r)
        \/ PairCleanup(r)

SpecPair == InitPair /\ [][NextPair]_vars

\* request r is between its mkdtemp and the end of its handler
Holds(r) == inflight[r].tempDir # NoDir

\* C31: of two requests in flight at the same time the rasterization
\* directories are distinct, the latest file-system operation of one is never
\* on the directory the other holds, and every file a request still needs
\* is on disk, whatever the other has removed meanwhile
C31_TempDirsAreNeverShared ==
    /\ \A r, q \in Requests :
          r # q /\ Holds(r) /\ Holds(q) => inflight[r].tempDir # inflight[q].tempDir
    /\ \A q \in Requests :
          Len(lastAccess) = 2 /\ lastAccess[1] # q /\ Holds(q)
             => lastAccess[2] # inflight[q].tempDir
    /\ \A r \in Requests :
          \A f \in inflight[r].needs : <<inflight[r].tempDir, f>> \in tmpFiles

\* request 1 has just removed its directory while request 2, of the same
\* handler, still needs the page it rendered
C31_Witness ==
    /\ inflight[1].kind = inflight[2].kind
    /\ inflight[1].pc = "idle"
    /\ lastAccess = <<1, <<Prefix(inflight[1].kind), "a">>>>
    /\ <<Prefix(inflight[1].kind), "a">> \notin tmpDirs
    /\ inflight[2].tempDir = <<Prefix(inflight[2].kind), "b">>
    /\ inflight[2].needs = {"page.png"}
    /\ inflight[2].pc = "readFile"

----------------------------------------------------------------------------
(* Termination *)

\* every step of a handler that can run does run: each external call settles
\* and the event loop resumes the continuation awaiting it
FairSpec == Spec /\ WF_vars(Next)

\* the handler answered over HTTP; the service called directly returned or threw
Answered ==
    IF endpoint = "service" THEN summary # <<>> \/ thrown # NoErr
    ELSE responses = 1 /\ response # NoResponse

BothSettled == Settled(tesseractResult) /\ Settled(visionResult)

\* C32: with every external call settling, every request comes to its end,
\* and at its end it has been answered (a response, or for the service called
\* directly a result or an error); while the two branches of the dual
\* strategy are in flight the join can resume exactly when both have settled,
\* and nothing else (no deadline of the orchestrator) moves the request on
C32_EveryRequestEndsAnsweredJoinAtSlowerBranch ==
    /\ <>Finished
    /\ [](Finished => Answered)
    /\ [](pc = "parallel" => (ENABLED JoinAndMerge <=> BothSettled))
    /\ [][pc = "parallel" /\ pc' # "parallel" => BothSettled]_vars

\* a dual request answered after the vision call ran into its own adapter's
\* timeout while the OCR branch had delivered
C32_Witness ==
    /\ DualRun
    /\ Finished
    /\ Answered
    /\ visionResult = Rejected(AxiosTimeout)
    /\ tesseractResult.status = "fulfilled"
    /\ rmOutcome = "removed"

----------------------------------------------------------------------------
(* Determinism *)

\* OCRService returned its text to the controller
OcrTextReturned == OcrOnly /\ (pc = "llm" \/ calls.text > 0)

\* C33: the text the OCR-only extraction yields is a function of the engine's
\* answer alone (the answer trimmed), so equal bytes and language under a
\* deterministic engine give equal text; with debug saving off whether an
\* image yields text at all is decided by that answer too; and the combined
\* text is a function of the two branch outcomes, the same on every run
C33_TextsAreFunctionsOfTheAnswers ==
    /\ OcrOnly /\ ocrEngineOut # NoReply
          => extractedText = IF ocrEngineOut.ok THEN Trim(ocrEngineOut.text) ELSE <<>>
    /\ OcrTextReturned => extractedText # <<>> /\ ocrEngineOut.ok
    /\ OcrOnly /\ fileType = "image" /\ ~saveFiles /\ ocrEngineOut # NoReply
          => (OcrTextReturned <=> ocrEngineOut.ok /\ Trim(ocrEngineOut.text) # <<>>)
    /\ PastBarrier
          => /\ tesseractText = BranchText(tesseractResult)
             /\ visionText = BranchText(visionResult)
             /\ combinedText = combineOCRResults(BranchText(tesseractResult),
                                                 BranchText(visionResult))

\* an image whose text came back with leading whitespace was extracted and
\* its trimmed text handed to the text model
C33_Witness ==
    /\ OcrTextReturned
    /\ fileType = "image"
    /\ ~saveFiles
    /\ ocrEngineOut = Answer(<<" ", "a">>)
    /\ extractedText = <<"a">>
    /\ calls.text = 1

----------------------------------------------------------------------------
(* Outcomes of a handler *)

\* the request was answered before its handler: 401, 429, or multer's error
StoppedByMiddleware ==
    \/ response.status \in {401, 429}
    \/ thrown \in {PlainError(<<"File too large">>),
                   PlainError(<<"File type is not allowed">>)}

ReachedController ==
    /\ endpoint = "analyze"
    /\ pc \notin {"authenticate", "rateLimiter", "upload"}
    /\ ~StoppedByMiddleware

Outcome200 == response.status = 200 /\ response.success /\ thrown = NoErr

Outcome400 ==
    /\ response.status = 400
    /\ response.code \in {"MISSING_FILE", "UNSUPPORTED_FILE_TYPE"}
    /\ thrown = NoErr

OutcomeForwarded ==
    /\ thrown # NoErr
    /\ response.status = 500
    /\ response.code = "INTERNAL_ERROR"
    /\ response.message = thrown.message

OutcomesProduced ==
    (IF Outcome200 THEN 1 ELSE 0) + (IF Outcome400 THEN 1 ELSE 0)
       + (IF OutcomeForwarded THEN 1 ELSE 0)

\* C34: a request that reached its controller gets at most one answer at any
\* time; once answered, and at the latest when the handler has ended (its
\* finally block included, whether or not the removal worked), the answer is
\* exactly one of: the 200 result, a 400 validation body, the error handler's
\* answer to the one error forwarded
C34_ExactlyOneOutcomePerHandledRequest ==
    ReachedController =>
        /\ responses <= 1
        /\ Finished => responses = 1
        /\ responses = 1 => OutcomesProduced = 1
        /\ responses = 0 => response = NoResponse

\* the dual handler answered 200 and then failed to remove its directory
C34_Witness ==
    /\ ReachedController
    /\ Finished
    /\ DualRun
    /\ Outcome200
    /\ responses = 1
    /\ rmOutcome = "failed"

----------------------------------------------------------------------------
(* Validation of the upload *)

NothingInvoked ==
    /\ calls = NoCalls
    /\ sent = NothingSent
    /\ rasterExit = "none"
    /\ ocrEngineOut = NoReply
    /\ visionBackendOut = NoReply
    /\ textBackendOut = NoReply

NoTempDirMade == ~tempDir /\ ~dirExists /\ ~pngExists /\ rmOutcome = "none"

Validated == ReachedController /\ pc # "handler"

\* C35: a request that comes to its controller without a file is answered
\* 400 MISSING_FILE, one whose file is neither a PDF nor an image is answered
\* 400 UNSUPPORTED_FILE_TYPE; and for such a request, wherever it is answered,
\* the rasterizer, the OCR engine and the two backends are never invoked and
\* no temp directory is made
C35_InvalidUploadIs400AndTouchesNothing ==
    /\ (Validated /\ ~hasFile)
          => /\ response.status = 400
             /\ response.code = "MISSING_FILE"
             /\ response.message = <<"No file uploaded">>
             /\ responses = 1
    /\ (Validated /\ hasFile /\ fileType = "other")
          => /\ response.status = 400
             /\ response.code = "UNSUPPORTED_FILE_TYPE"
             /\ response.message = <<"Unsupported file type: ">>
             /\ responses = 1
    /\ (endpoint = "analyze" /\ (~hasFile \/ fileType = "other"))
          => NothingInvoked /\ NoTempDirMade /\ imageBuffer = "none"

\* C35 as stated, for every request to an analyze route: answered 400
\* MISSING_FILE without a file and 400 UNSUPPORTED_FILE_TYPE with a file of
\* another type (the middleware in front answers some of them 401, 429 or 500)
C35_EveryInvalidUploadIs400 ==
    (endpoint = "analyze" /\ Finished)
       => /\ ~hasFile => response.status = 400 /\ response.code = "MISSING_FILE"
          /\ (hasFile /\ fileType = "other")
                => response.status = 400 /\ response.code = "UNSUPPORTED_FILE_TYPE"
          /\ (~hasFile \/ fileType = "other") => NothingInvoked /\ NoTempDirMade

\* the dual handler turned away a file of another type
C35_Witness ==
    /\ Validated
    /\ DualRun
    /\ hasFile
    /\ fileType = "other"
    /\ response.code = "UNSUPPORTED_FILE_TYPE"
    /\ Finished

----------------------------------------------------------------------------
(* Failures stay inside the request *)

\* the handlers of server.ts that end the process: positions a request is in
\* when something it threw was caught by nobody
ProcessExit == pc \in {"unhandledRejection", "uncaughtException"}

\* something failed in this request
SomethingFailed ==
    \/ thrown # NoErr
    \/ BranchFailed(tesseractResult) \/ BranchFailed(visionResult)
    \/ rmOutcome = "failed"
    \/ rasterExit = "nonzero"
    \/ (ocrEngineOut # NoReply /\ ~ocrEngineOut.ok)
    \/ (visionBackendOut # NoReply /\ ~visionBackendOut.ok)
    \/ (textBackendOut # NoReply /\ ~textBackendOut.ok)

\* C36: whatever fails in a request (a branch of the dual strategy rejecting,
\* an adapter or a file-system call throwing, the removal in the finally
\* block failing) is caught in that request: the request is never where the
\* process-exit handlers would take over, it can always go on to its end, a
\* rejected branch is what the join reads and logs, an error thrown is the
\* one the error handler answers, and a failed removal changes nothing of
\* the answer
C36_FailuresAreCaughtInsideTheRequest ==
    /\ ~ProcessExit
    /\ Finished \/ ENABLED Next
    /\ \A r \in {tesseractResult, visionResult} :
          PastBarrier /\ BranchFailed(r) => r.reason \in logged
    /\ (endpoint = "analyze" /\ Finished /\ thrown # NoErr)
          => responses = 1 /\ response.status = 500 /\ response.message = thrown.message
    /\ (endpoint = "analyze" /\ Finished /\ rmOutcome = "failed")
          => /\ responses = 1
             /\ thrown = NoErr => response.status = 200
             /\ thrown # NoErr => response.message = thrown.message

\* a dual request in which the vision branch was rejected, the text model
\* failed and the removal of the directory failed, ended and answered 500
C36_Witness ==
    /\ DualRun
    /\ Finished
    /\ BranchFailed(visionResult)
    /\ textBackendOut = Failure(AxiosOther)
    /\ rmOutcome = "failed"
    /\ response.status = 500
    /\ SomethingFailed

----------------------------------------------------------------------------
(* The model identifiers of one request: which model each backend is asked  *)
(* for, and which model the 200 response names                              *)

ModelHeaders == {"", "llama3.2:3b", "gemma3:4b", "qwen3-vl:2b"}

OllamaModelEnv == {"", "llama3.2:3b", "mistral:7b"}

\* `a || b` on strings
OrElse(a, b) == IF a = "" THEN b ELSE a

\* config.ollama.model: `process.env.OLLAMA_MODEL || 'llama3.2:3b'`
configOllamaModel == OrElse(ollamaModel, "llama3.2:3b")

Posted(to, model) == [to |-> to, model |-> model]

InitModels ==
    /\ Parked
    /\ strategy \in {"ocr", "dual", "magic"}
    /\ saveFiles = FALSE
    /\ pc = "handler"
    /\ xModel \in ModelHeaders
    /\ ollamaModel \in OllamaModelEnv
    /\ modelSent = <<>>
    /\ metadataModel = <<>>
    /\ NoPair

\* the parts of the request this view leaves alone
rest == <<request, disk, imageBuffer, branches, merged, textBackendOut, extractedText,
          textPrompt, visionPrompt, calls, sent, outcome, pair, xModel, ollamaModel>>

\* LLMService.analyzeText: `llmModel = model || config.ollama.model`
LlmPost ==
    /\ pc = "handler"
    /\ strategy = "ocr"
    /\ modelSent' = Append(modelSent, Posted("text", OrElse(xModel, configOllamaModel)))
    /\ pc' = "posted"
    /\ UNCHANGED <<rest, metadataModel>>

\* DualOCRService.runVisionOCR with `useVisionModel = visionModel || 'gemma3:4b'`;
\* the controller passes the x-model header as visionModel
DualVisionPost ==
    /\ pc = "handler"
    /\ strategy = "dual"
    /\ modelSent' = Append(modelSent, Posted("vision", OrElse(xModel, "gemma3:4b")))
    /\ pc' = "parallel"
    /\ UNCHANGED <<rest, metadataModel>>

\* DualOCRService.analyzeImage: `useTextModel = textModel || config.ollama.model`;
\* the controller passes no textModel
DualTextPost ==
    /\ pc = "parallel"
    /\ \E bothFailed \in BOOLEAN :
          IF bothFailed
          THEN pc' = "failed" /\ UNCHANGED modelSent
          ELSE /\ modelSent' = Append(modelSent, Posted("text", OrElse("", configOllamaModel)))
               /\ pc' = "posted"
    /\ UNCHANGED <<rest, metadataModel>>

\* MagicOCRService.analyzeImage: `ocrModel = model || 'gemma3:4b'`
MagicPost ==
    /\ pc = "handler"
    /\ strategy = "magic"
    /\ modelSent' = Append(modelSent, Posted("vision", OrElse(xModel, "gemma3:4b")))
    /\ pc' = "posted"
    /\ UNCHANGED <<rest, metadataModel>>

\* `metadata: { model: ... }` of the three controllers
metadata ==
    CASE strategy = "ocr" -> <<OrElse(xModel, "llama3.2:3b")>>
      [] strategy = "dual" -> <<"Tesseract + ", OrElse(xModel, "gemma3:4b"), " + ",
                               "llama3.2:3b">>
      [] OTHER -> <<OrElse(xModel, "gemma3:4b")>>

\* the last post is answered: the 200 response is built, or the error forwarded
ReportModel ==
    /\ pc = "posted"
    /\ \E ok \in BOOLEAN :
          IF ok THEN metadataModel' = metadata /\ pc' = "done"
          ELSE pc' = "failed" /\ UNCHANGED metadataModel
    /\ UNCHANGED <<rest, modelSent>>

NextModels ==
    \/ LlmPost
    \/ DualVisionPost
    \/ DualTextPost
    \/ MagicPost
    \/ ReportModel

SpecModels == InitModels /\ [][NextModels]_vars

\* the models the backends were asked for, in the order of the posts
SentModels == [i \in 1..Len(modelSent) |-> modelSent[i].model]

\* the model names in the reported string (the literals around them left out)
ReportedModels ==
    IF strategy = "dual" /\ Len(metadataModel) = 4
    THEN <<metadataModel[2], metadataModel[4]>>
    ELSE metadataModel

\* C37: the model named in the metadata of a 200 response is the model that
\* was sent to the backend for that request (for the dual strategy: the
\* vision model and the text model named are the two that were sent)
C37_ReportedModelIsTheOneSent ==
    pc = "done" => ReportedModels = SentModels

\* without an x-model header and with OLLAMA_MODEL set, the text model asked
\* for is the configured one while the response names llama3.2:3b
C37_Divergence ==
    /\ pc = "done"
    /\ xModel = ""
    /\ ollamaModel = "mistral:7b"
    /\ strategy = "ocr"
    /\ SentModels = <<"mistral:7b">>
    /\ ReportedModels = <<"llama3.2:3b">>

----------------------------------------------------------------------------
(* The magic-ocr endpoint and the caller's prompt *)

MagicRun == endpoint = "analyze" /\ strategy = "magic"

\* C38: on the magic-ocr endpoint nothing sent and nothing returned depends on
\* the x-prompt header: the instruction sent to the vision backend is the
\* fixed one, the image sent is the given image preconditioned, no other
\* prompt is sent anywhere, and the analysis returned is the backend's answer
\* trimmed; so two requests that differ in their prompt only send the same
\* and, for the same answer, return the same
C38_MagicIgnoresTheCallersPrompt ==
    MagicRun =>
        /\ calls.vision > 0
              => /\ visionPrompt = <<"Extract the text in the image.">>
                 /\ sent.vision = Image("optimized", resize(imageSize))
        /\ calls.vision = 0 => visionPrompt = <<>>
        /\ textPrompt = <<>> /\ calls.text = 0
        /\ response.status = 200
              => /\ visionBackendOut.ok
                 /\ response.analysis = Trim(visionBackendOut.text)
                 /\ response = Success(Trim(visionBackendOut.text))

\* a magic-ocr request with an x-prompt header was answered with the
\* backend's text
C38_Witness ==
    /\ MagicRun
    /\ xPrompt = <<"p">>
    /\ Finished
    /\ response.status = 200
    /\ response.analysis = <<"a">>
    /\ visionPrompt = <<"Extract the text in the image.">>
    /\ imageSize = <<2048, 4096>>

====
